---- MODULE Spec2Model ----
(***************************************************************************)
(* A model of jupyterlab-browser-ai: the tool-call emulation layer of      *)
(* src/src/provider.ts (parseToolCallResponse, doGenerate, doStream) and   *)
(* the model lifecycle and inference serializer of                         *)
(* src/src/chrome-ai-file-summarizer.ts (acquireModelExecutionSlot,        *)
(* wrapSerializedStream, createSerializedInferenceProxy and the model      *)
(* caches).                                                                *)
(*                                                                         *)
(* A text is a sequence of lexical units.  A unit is one punctuation       *)
(* character ("{", "}", "[", "]", ":", ",", the double quote, the          *)
(* backslash, the space, the newline), one run of three backquotes (a     *)
(* markdown fence) or one maximal run of letters and digits ("json",       *)
(* "output", "c1").                                                        *)
(* The backquote cannot be written in a TLA+ string: the run of three      *)
(* backquotes that opens and closes a markdown code block is the unit      *)
(* FENCE.                                                                  *)
(***************************************************************************)
EXTENDS Integers, Sequences, FiniteSets, TLC

(***************************************************************************)
(* Bounds of the model.                                                    *)
(***************************************************************************)
\* The longest output array of a generated envelope.
MaxItems == 2
\* The most deltas buffered for one text segment.
MaxDeltas == 3
\* The calls made on the serialized models.
MaxCalls == 3
\* The requests made for models (calls of a factory or of a preload).
MaxRequests == 3
\* How often the release closure of one call is invoked at most.
MaxReleases == 2
\* How many clicks on badges are made, and how often one file is saved.
MaxClicks == 3
MaxSaves == 2
\* How many entries the setting of the model names holds at most.
MaxEntries == 3
\* How many messages a prompt holds at most.
MaxMessages == 3
\* How many progress reports one load makes at most.
MaxProgressEvents == 4

(***************************************************************************)
(* The state.  Each group of variables is described where its operations   *)
(* are defined.                                                            *)
(***************************************************************************)
VARIABLES underlying, toolCalls, generated, reply, genPc

genVars == <<underlying, toolCalls, generated, reply, genPc>>

VARIABLES bufferedText, textId, chunk, enqueued, streamToolCalls, pieces,
          segment, streamPc

streamVars == <<bufferedText, textId, chunk, enqueued, streamToolCalls, pieces,
                segment, streamPc>>

VARIABLES modelExecutionQueue, callPc, callModel, callKind, previous, released,
          releaseCalls, source, reading, cancelling, streamReleased,
          wrapperReleases, cancelReason, callResult, cancelOutcome

outcomeVars == <<cancelReason, callResult, cancelOutcome>>

serializerVars == <<modelExecutionQueue, callPc, callModel, callKind, previous,
                    released, releaseCalls, source, reading, cancelling,
                    streamReleased, wrapperReleases, outcomeVars>>

VARIABLES models, constructed, handed, initialization, requests, initFailures,
          inFlight

cacheVars == <<models, constructed, handed, initialization, requests, initFailures,
               inFlight>>

VARIABLES loadPc, notificationId, latestProgress, notificationDelayTimeout, timer,
          notifications, progressEvents

notifyVars == <<loadPc, notificationId, latestProgress, notificationDelayTimeout, timer,
                notifications, progressEvents>>

VARIABLES promptInput, allPrompts, promptPc

polyfillVars == <<promptInput, allPrompts, promptPc>>

VARIABLES settingsPc, composite, configuredModels, defaultModels

settingsVars == <<settingsPc, composite, configuredModels, defaultModels>>

VARIABLES fileVersion, summaryCache, clickPc, clickPath, clickVersion, clicks,
          currentHoverPath, tooltip

summaryVars == <<fileVersion, summaryCache, clickPc, clickPath, clickVersion, clicks,
                 currentHoverPath, tooltip>>

vars == <<genVars, streamVars, serializerVars, cacheVars, notifyVars, polyfillVars, settingsVars, summaryVars>>

(***************************************************************************)
(* JavaScript values, as JSON.parse builds them.  An object is the         *)
(* sequence of its <<key, value>> members in insertion order.              *)
(***************************************************************************)
JNull == [t |-> "null"]
JBool(b) == [t |-> "bool", b |-> b]
JNum(n) == [t |-> "num", n |-> n]
JStr(cs) == [t |-> "str", s |-> cs]
JArr(xs) == [t |-> "arr", a |-> xs]
JObj(ms) == [t |-> "obj", m |-> ms]
JUndefined == [t |-> "undefined"]

QUOTE == "\""
BACKSLASH == "\\"
FENCE == "<fence>"
NumberUnits == {"0", "1", "42"}

IsSpace(c) == c \in {" ", "\n"}

RECURSIVE SkipWs(_, _)
SkipWs(s, p) ==
  IF p <= Len(s) /\ IsSpace(s[p]) THEN SkipWs(s, p + 1) ELSE p

RECURSIVE LastNonSpace(_, _)
LastNonSpace(s, q) ==
  IF q >= 1 /\ IsSpace(s[q]) THEN LastNonSpace(s, q - 1) ELSE q

\* String.prototype.trim
trim(s) ==
  LET a == SkipWs(s, 1)
      b == LastNonSpace(s, Len(s))
  IN IF a > b THEN <<>> ELSE SubSeq(s, a, b)

(***************************************************************************)
(* JSON.parse.  A parse result is [ok, p, v]: whether the text at the      *)
(* start position is a value, the position after it, and the value.        *)
(***************************************************************************)
ParseFail == [ok |-> FALSE, p |-> 0, v |-> JNull]
ParseOk(p, v) == [ok |-> TRUE, p |-> p, v |-> v]

\* obj[key] = value on an object under construction: a repeated key keeps
\* its place and takes the last value.
RECURSIVE PutMember(_, _, _)
PutMember(ms, k, v) ==
  IF ms = <<>> THEN << <<k, v>> >>
  ELSE IF Head(ms)[1] = k THEN << <<k, v>> >> \o Tail(ms)
  ELSE << Head(ms) >> \o PutMember(Tail(ms), k, v)

RECURSIVE ParseStringBody(_, _, _)
ParseStringBody(s, p, acc) ==
  IF p > Len(s) THEN ParseFail
  ELSE IF s[p] = QUOTE THEN ParseOk(p + 1, JStr(acc))
  ELSE IF s[p] = "\n" THEN ParseFail
  ELSE IF s[p] = BACKSLASH
    THEN IF p + 1 <= Len(s) /\ s[p + 1] \in {QUOTE, BACKSLASH}
           THEN ParseStringBody(s, p + 2, Append(acc, s[p + 1]))
           ELSE ParseFail
  ELSE ParseStringBody(s, p + 1, Append(acc, s[p]))

RECURSIVE ParseValue(_, _)
RECURSIVE ParseMembers(_, _, _)
RECURSIVE ParseElements(_, _, _)

ParseValue(s, p) ==
  IF p > Len(s) THEN ParseFail
  ELSE IF s[p] = "{"
    THEN LET q == SkipWs(s, p + 1)
         IN IF q <= Len(s) /\ s[q] = "}" THEN ParseOk(q + 1, JObj(<<>>))
            ELSE ParseMembers(s, q, <<>>)
  ELSE IF s[p] = "["
    THEN LET q == SkipWs(s, p + 1)
         IN IF q <= Len(s) /\ s[q] = "]" THEN ParseOk(q + 1, JArr(<<>>))
            ELSE ParseElements(s, q, <<>>)
  ELSE IF s[p] = QUOTE THEN ParseStringBody(s, p + 1, <<>>)
  ELSE IF s[p] = "null" THEN ParseOk(p + 1, JNull)
  ELSE IF s[p] = "true" THEN ParseOk(p + 1, JBool(TRUE))
  ELSE IF s[p] = "false" THEN ParseOk(p + 1, JBool(FALSE))
  ELSE IF s[p] \in NumberUnits THEN ParseOk(p + 1, JNum(s[p]))
  ELSE ParseFail

ParseMembers(s, p, acc) ==
  IF p > Len(s) \/ s[p] # QUOTE THEN ParseFail
  ELSE
    LET k == ParseStringBody(s, p + 1, <<>>)
    IN IF ~k.ok THEN ParseFail
       ELSE
         LET c == SkipWs(s, k.p)
         IN IF c > Len(s) \/ s[c] # ":" THEN ParseFail
            ELSE
              LET v == ParseValue(s, SkipWs(s, c + 1))
              IN IF ~v.ok THEN ParseFail
                 ELSE
                   LET e == SkipWs(s, v.p)
                       ms == PutMember(acc, k.v.s, v.v)
                   IN IF e > Len(s) THEN ParseFail
                      ELSE IF s[e] = "," THEN ParseMembers(s, SkipWs(s, e + 1), ms)
                      ELSE IF s[e] = "}" THEN ParseOk(e + 1, JObj(ms))
                      ELSE ParseFail

ParseElements(s, p, acc) ==
  LET v == ParseValue(s, p)
  IN IF ~v.ok THEN ParseFail
     ELSE
       LET e == SkipWs(s, v.p)
           xs == Append(acc, v.v)
       IN IF e > Len(s) THEN ParseFail
          ELSE IF s[e] = "," THEN ParseElements(s, SkipWs(s, e + 1), xs)
          ELSE IF s[e] = "]" THEN ParseOk(e + 1, JArr(xs))
          ELSE ParseFail

\* JSON.parse(text): [ok |-> FALSE] stands for the SyntaxError it throws.
JSONParse(s) ==
  LET r == ParseValue(s, SkipWs(s, 1))
  IN IF r.ok /\ SkipWs(s, r.p) = Len(s) + 1 THEN r ELSE ParseFail

(***************************************************************************)
(* JavaScript property access and truthiness on parsed values.             *)
(***************************************************************************)
RECURSIVE GetMember(_, _)
GetMember(ms, k) ==
  IF ms = <<>> THEN JUndefined
  ELSE IF Head(ms)[1] = k THEN Head(ms)[2]
  ELSE GetMember(Tail(ms), k)

\* v[k] throws a TypeError when v is null or undefined.
ThrowsOnGet(v) == v.t \in {"null", "undefined"}

\* v[k] for the keys read here (output, type, callId, name, arguments):
\* numbers, strings, booleans and arrays have no such property.
Get(v, k) == IF v.t = "obj" THEN GetMember(v.m, k) ELSE JUndefined

Truthy(v) ==
  CASE v.t = "null" -> FALSE
    [] v.t = "undefined" -> FALSE
    [] v.t = "bool" -> v.b
    [] v.t = "num" -> v.n # "0"
    [] v.t = "str" -> v.s # <<>>
    [] OTHER -> TRUE

IsArray(v) == v.t = "arr"
TypeofString(v) == v.t = "str"

(***************************************************************************)
(* The two regular expressions of parseToolCallResponse.                   *)
(***************************************************************************)
NoMatch == [found |-> FALSE, text |-> <<>>]
Match(t) == [found |-> TRUE, text |-> t]

Positions(s, c) == {i \in 1..Len(s) : s[i] = c}
Min(S) == CHOOSE x \in S : \A y \in S : x <= y
Max(S) == CHOOSE x \in S : \A y \in S : x >= y

\* /<fence>(?:json)?\s*\n?([\s\S]*?)\n?<fence>/ : group 1 of the leftmost
\* match.  The match starts at the first fence that has a fence after it; the
\* optional tag and the white space are taken greedily, the captured text
\* lazily up to the next fence, less one newline right before that fence.
codeBlockMatch(s) ==
  LET fences == Positions(s, FENCE)
  IN IF Cardinality(fences) < 2 THEN NoMatch
     ELSE
       LET i == Min(fences)
           p == IF s[i + 1] = "json" THEN i + 2 ELSE i + 1
           b == SkipWs(s, p)
           j == Min({f \in fences : f >= b})
           e == IF j - 1 >= b /\ s[j - 1] = "\n" THEN j - 2 ELSE j - 1
       IN Match(SubSeq(s, b, e))

\* /\{[\s\S]*\}/ : from the first "{" to the last "}" after it.
jsonMatch(s) ==
  LET opens == Positions(s, "{")
  IN IF opens = {} THEN NoMatch
     ELSE
       LET a == Min(opens)
           closes == {c \in Positions(s, "}") : c > a}
       IN IF closes = {} THEN NoMatch ELSE Match(SubSeq(s, a, Max(closes)))

startsWith(s, c) == Len(s) >= 1 /\ s[1] = c

(***************************************************************************)
(* ChromeAIToolCallingProvider.parseToolCallResponse.  The value returned  *)
(* is parsed.output (an array) or null.                                    *)
(***************************************************************************)
\* The text handed to JSON.parse after the two extraction attempts.
jsonText(text) ==
  LET t0 == trim(text)
      cb == codeBlockMatch(t0)
      t1 == IF cb.found THEN trim(cb.text) ELSE t0
      jm == jsonMatch(t1)
  IN IF ~startsWith(t1, "{") /\ jm.found THEN jm.text ELSE t1

\* The callback of parsed.output.every: a null item makes it throw.
hasRequiredFields(item) ==
  /\ ~ThrowsOnGet(item)
  /\ Get(item, <<"type">>) = JStr(<<"function_call">>)
  /\ Truthy(Get(item, <<"callId">>))
  /\ Truthy(Get(item, <<"name">>))
  /\ TypeofString(Get(item, <<"arguments">>))

\* Mutant: some instead of every.
isToolCallResponseSome(output) ==
  \E i \in 1..Len(output.a) : hasRequiredFields(output.a[i])

isToolCallResponse(output) ==
  \A i \in 1..Len(output.a) : hasRequiredFields(output.a[i])

\* The outcome of a try block whose statement threw.
Thrown == [t |-> "thrown"]

\* parsed.output.every(..) throws: it reaches a null item, every item before it
\* having the required fields.
everyThrows(output) ==
  \E i \in 1..Len(output.a) :
    /\ ThrowsOnGet(output.a[i])
    /\ \A j \in 1..(i - 1) : hasRequiredFields(output.a[j])

\* The try block: the value it returns, or Thrown when JSON.parse, the read of
\* parsed.output or the callback of every throws.
tryBlock(jt) ==
  LET r == JSONParse(jt)
  IN IF ~r.ok THEN Thrown
     ELSE IF ThrowsOnGet(r.v) THEN Thrown
     ELSE
       LET output == Get(r.v, <<"output">>)
       IN IF Truthy(output) /\ IsArray(output)
            THEN IF everyThrows(output) THEN Thrown
                 ELSE IF isToolCallResponse(output) THEN output
                 ELSE JNull
            ELSE JNull

\* Mutant: the exception leaves parseToolCallResponse.
catchRethrows(outcome) == outcome

\* catch (error) { ...; return null; }
catchBlock(outcome) == IF outcome = Thrown THEN JNull ELSE outcome

parseToolCallResponse(text) == catchBlock(tryBlock(jsonText(text)))

(***************************************************************************)
(* The replies of the on-device model: the texts parseToolCallResponse is  *)
(* applied to.  The tool-call envelope is the one the polyfill instructs   *)
(* the model to produce: {"output":[{"type":"function_call","callId":..,   *)
(* "name":..,"arguments":".."}]}, serialised without white space.          *)
(***************************************************************************)
RECURSIVE EscapeString(_)
EscapeString(cs) ==
  IF cs = <<>> THEN <<>>
  ELSE (IF Head(cs) \in {QUOTE, BACKSLASH} THEN <<BACKSLASH, Head(cs)>> ELSE <<Head(cs)>>)
       \o EscapeString(Tail(cs))

RenderString(cs) == <<QUOTE>> \o EscapeString(cs) \o <<QUOTE>>

RECURSIVE RenderValue(_)
RECURSIVE RenderMembers(_)
RECURSIVE RenderElements(_)

RenderValue(v) ==
  CASE v.t = "null" -> <<"null">>
    [] v.t = "bool" -> IF v.b THEN <<"true">> ELSE <<"false">>
    [] v.t = "num" -> <<v.n>>
    [] v.t = "str" -> RenderString(v.s)
    [] v.t = "arr" -> <<"[">> \o RenderElements(v.a) \o <<"]">>
    [] v.t = "obj" -> <<"{">> \o RenderMembers(v.m) \o <<"}">>

RenderMembers(ms) ==
  IF ms = <<>> THEN <<>>
  ELSE RenderString(Head(ms)[1]) \o <<":">> \o RenderValue(Head(ms)[2])
       \o (IF Len(ms) > 1 THEN <<",">> ELSE <<>>) \o RenderMembers(Tail(ms))

RenderElements(xs) ==
  IF xs = <<>> THEN <<>>
  ELSE RenderValue(Head(xs)) \o (IF Len(xs) > 1 THEN <<",">> ELSE <<>>)
       \o RenderElements(Tail(xs))

\* The arguments string of the i-th call: {} or {"a": 1}, as JSON texts.
ArgumentsText(i) ==
  IF i % 2 = 1 THEN <<"{", "}">> ELSE <<"{", QUOTE, "a", QUOTE, ":", " ", "1", "}">>

CallIdUnit(i) == CASE i = 1 -> "c1" [] i = 2 -> "c2" [] i = 3 -> "c3" [] OTHER -> "c4"
ToolNameUnit(i) == IF i % 2 = 1 THEN "f" ELSE "g"

FunctionCall(type, callId, name, arguments) ==
  JObj(<< << <<"type">>, type >>, << <<"callId">>, callId >>,
          << <<"name">>, name >>, << <<"arguments">>, arguments >> >>)

\* The i-th element of an output array, as the model was told to write it.
GoodItem(i) ==
  FunctionCall(JStr(<<"function_call">>), JStr(<<CallIdUnit(i)>>),
               JStr(<<ToolNameUnit(i)>>), JStr(ArgumentsText(i)))

\* The ways a model gets an element wrong.
InvalidKinds == {"type", "callId-empty", "callId-missing", "name-empty",
                 "name-missing", "arguments-object", "arguments-missing", "null-item"}
ItemKinds == {"good", "arguments-not-json"} \cup InvalidKinds

Item(i, kind) ==
  LET fc == JStr(<<"function_call">>)
      id == JStr(<<CallIdUnit(i)>>)
      nm == JStr(<<ToolNameUnit(i)>>)
      ar == JStr(ArgumentsText(i))
  IN CASE kind = "good" -> GoodItem(i)
       [] kind = "arguments-not-json" -> FunctionCall(fc, id, nm, JStr(<<"{", "a", ":">>))
       [] kind = "type" -> FunctionCall(JStr(<<"message">>), id, nm, ar)
       [] kind = "callId-empty" -> FunctionCall(fc, JStr(<<>>), nm, ar)
       [] kind = "callId-missing" ->
            JObj(<< << <<"type">>, fc >>, << <<"name">>, nm >>, << <<"arguments">>, ar >> >>)
       [] kind = "name-empty" -> FunctionCall(fc, id, JStr(<<>>), ar)
       [] kind = "name-missing" ->
            JObj(<< << <<"type">>, fc >>, << <<"callId">>, id >>, << <<"arguments">>, ar >> >>)
       [] kind = "arguments-object" ->
            FunctionCall(fc, id, nm, JObj(<< << <<"a">>, JNum("1") >> >>))
       [] kind = "arguments-missing" ->
            JObj(<< << <<"type">>, fc >>, << <<"callId">>, id >>, << <<"name">>, nm >> >>)
       [] kind = "null-item" -> JNull

\* An output array of n elements, all good but the one at position odd (0: none),
\* which is of kind k.
OutputArray(n, odd, k) == [i \in 1..n |-> IF i = odd THEN Item(i, k) ELSE GoodItem(i)]

Envelope(items) == JObj(<< << <<"output">>, JArr(items) >> >>)

\* Replies that are no envelope at all.
OtherBodies ==
  { <<"Hello", " ", "there">>,
    <<"null">>,
    <<"42">>,
    <<"[", "]">>,
    RenderValue(JObj(<< << <<"output">>, JStr(<<"x">>) >> >>)),
    RenderValue(JObj(<< << <<"result">>, JArr(<<GoodItem(1)>>) >> >>)),
    <<"{", QUOTE, "output", QUOTE, ":", "[">> }

Wraps == {"bare", "fence", "fence-json"}
Leads == { <<>>, <<"Sure", ":", "\n">> }
Trails == { <<>>, <<"\n", "Done">> }

Wrapped(body, wrap) ==
  CASE wrap = "bare" -> body
    [] wrap = "fence" -> <<FENCE, "\n">> \o body \o <<"\n", FENCE>>
    [] wrap = "fence-json" -> <<FENCE, "json", "\n">> \o body \o <<"\n", FENCE>>

ReplyText(r) == r.lead \o Wrapped(r.body, r.wrap) \o r.trail

\* A reply and how it was put together: the output array it carries (for an
\* envelope), the wrapping and the prose around it.
EnvelopeReplies ==
  { [envelope |-> TRUE, items |-> OutputArray(n, odd, k),
     body |-> RenderValue(Envelope(OutputArray(n, odd, k))),
     wrap |-> w, lead |-> l, trail |-> t] :
      n \in 0..MaxItems, odd \in 0..MaxItems, k \in ItemKinds \ {"good"},
      w \in Wraps, l \in Leads, t \in Trails }

OtherReplies ==
  { [envelope |-> FALSE, items |-> <<>>, body |-> b, wrap |-> w, lead |-> l, trail |-> t] :
      b \in OtherBodies, w \in Wraps, l \in Leads, t \in Trails }

Replies == EnvelopeReplies \cup OtherReplies

(***************************************************************************)
(* ChromeAIToolCallingProvider.doGenerate.                                 *)
(*   underlying  the result of super.doGenerate: [content, finishReason]   *)
(*   toolCalls   the value of parseToolCallResponse(text), undefined when   *)
(*               the call is not reached                                    *)
(*   generated   the result doGenerate returns                              *)
(*   reply       how the text of the underlying result was put together     *)
(*   genPc       "idle" before the call, "returned" after it, "rejected"    *)
(*               when an exception left it                                  *)
(***************************************************************************)

TextPart(text) == [type |-> "text", text |-> text]
ReasoningPart(text) == [type |-> "reasoning", text |-> text]
NoResult == [content |-> <<>>, finishReason |-> "none"]
NoReply == [envelope |-> FALSE, items |-> <<>>, body |-> <<>>, wrap |-> "bare",
            lead |-> <<>>, trail |-> <<>>]

\* The content lists super.doGenerate may return around a text.
ContentShapes == {"one-text", "two-texts", "reasoning", "empty"}
Content(shape, text) ==
  CASE shape = "one-text" -> <<TextPart(text)>>
    [] shape = "two-texts" -> <<TextPart(text), TextPart(<<"more">>)>>
    [] shape = "reasoning" -> <<ReasoningPart(text)>>
    [] shape = "empty" -> <<>>
FinishReasons == {"stop", "length"}

\* if (result.content.length === 1 && result.content[0].type === 'text')
isTextResponse(result) ==
  Len(result.content) = 1 /\ result.content[1].type = "text"

\* Mutant: input is JSON.stringify(JSON.parse(call.arguments)).
toolCallContentReserialised(calls) ==
  [i \in 1..Len(calls.a) |->
     [type |-> "tool-call",
      toolCallId |-> Get(calls.a[i], <<"callId">>),
      toolName |-> Get(calls.a[i], <<"name">>),
      input |-> LET a == Get(calls.a[i], <<"arguments">>)
                IN IF JSONParse(a.s).ok THEN JStr(RenderValue(JSONParse(a.s).v)) ELSE a]]

\* toolCalls.map(call => ({type: 'tool-call', toolCallId: call.callId,
\*                         toolName: call.name, input: call.arguments}))
toolCallContent(calls) ==
  [i \in 1..Len(calls.a) |->
     [type |-> "tool-call",
      toolCallId |-> Get(calls.a[i], <<"callId">>),
      toolName |-> Get(calls.a[i], <<"name">>),
      input |-> Get(calls.a[i], <<"arguments">>)]]

\* What doGenerate returns for a result of super.doGenerate.
doGenerateResult(result) ==
  IF isTextResponse(result) /\ Truthy(parseToolCallResponse(result.content[1].text))
    THEN [content |-> toolCallContent(parseToolCallResponse(result.content[1].text)),
          finishReason |-> "tool-calls"]
    ELSE result

GenInit ==
  /\ underlying = NoResult
  /\ toolCalls = JUndefined
  /\ generated = NoResult
  /\ reply = NoReply
  /\ genPc = "idle"

\* One call of doGenerate: super.doGenerate answers with a reply r in a content
\* list of the given shape, and the result is post-processed.
doGenerate(r, shape, reason) ==
  /\ genPc = "idle"
  /\ LET result == [content |-> Content(shape, ReplyText(r)), finishReason |-> reason]
         calls == IF isTextResponse(result)
                    THEN parseToolCallResponse(result.content[1].text)
                    ELSE JUndefined
     IN /\ underlying' = result
        /\ toolCalls' = calls
        /\ IF calls = Thrown
             THEN generated' = NoResult /\ genPc' = "rejected"
             ELSE generated' = doGenerateResult(result) /\ genPc' = "returned"
  /\ reply' = r
  /\ UNCHANGED <<streamVars, serializerVars, cacheVars, notifyVars, polyfillVars, settingsVars, summaryVars>>

\* The provider object is used for the next call.
NextCall ==
  /\ genPc # "idle"
  /\ underlying' = NoResult
  /\ toolCalls' = JUndefined
  /\ generated' = NoResult
  /\ reply' = NoReply
  /\ genPc' = "idle"
  /\ UNCHANGED <<streamVars, serializerVars, cacheVars, notifyVars, polyfillVars, settingsVars, summaryVars>>

(***************************************************************************)
(* ChromeAIToolCallingProvider.doStream: the TransformStream put on the    *)
(* stream of super.doStream.                                               *)
(*   bufferedText, textId   the two variables the transform closes over    *)
(*   chunk      the chunk the last call of transform received              *)
(*   enqueued   what that call passed to controller.enqueue, in order      *)
(*   streamToolCalls  the value of parseToolCallResponse in that call      *)
(*   pieces     the deltas appended to bufferedText since it was reset     *)
(*   segment    "open" from a text-start to the next text-end, "ended"      *)
(*              right after the text-end of an open segment, "stray" after  *)
(*              a text-delta or text-end outside an open segment, else      *)
(*              "idle"                                                      *)
(*   streamPc   "open" while chunks arrive, "closed" once the source ended, *)
(*              "errored" when transform threw                              *)
(* A string of a chunk (an id, a delta) is the value JStr(units).          *)
(***************************************************************************)


TextStart(id) == [type |-> "text-start", id |-> id]
TextDelta(id, delta) == [type |-> "text-delta", id |-> id, delta |-> delta]
TextEnd(id) == [type |-> "text-end", id |-> id]
ToolInputStart(id, toolName) == [type |-> "tool-input-start", id |-> id, toolName |-> toolName]
ToolInputDelta(id, delta) == [type |-> "tool-input-delta", id |-> id, delta |-> delta]
ToolInputEnd(id) == [type |-> "tool-input-end", id |-> id]
ToolCall(toolCallId, toolName, input) ==
  [type |-> "tool-call", toolCallId |-> toolCallId, toolName |-> toolName, input |-> input]
NoChunk == [type |-> "none"]

\* The segment ids of the source: any string, the empty one included.
SegmentIds == {JStr(<<>>), JStr(<<"t1">>)}

\* The deltas of the source.  PieceOpen PieceClose is an envelope of one call,
\* PieceOpen PieceMore PieceClose one of two calls.
PieceHel == <<"Hel">>
PieceLo == <<"lo">>
PieceOpen == <<"{", QUOTE, "output", QUOTE, ":", "[">> \o RenderValue(GoodItem(1))
PieceMore == <<",">> \o RenderValue(GoodItem(2))
PieceClose == <<"]", "}">>
\* Deltas of texts that are no envelope: JSON null, an array at top level, an
\* output that is no array, and (after PieceOpen) a null element.
PieceNull == <<"null">>
PieceArray == <<"[", "42", "]">>
PieceOutputString == RenderValue(JObj(<< << <<"output">>, JStr(<<"x">>) >> >>))
PieceNullItem == <<",", "null">>
Pieces == {PieceHel, PieceLo, PieceOpen, PieceMore, PieceClose,
           PieceNull, PieceArray, PieceOutputString, PieceNullItem}

\* Chunks of other types, which the transform forwards.
OtherChunks == {[type |-> "stream-start"], [type |-> "finish", finishReason |-> "stop"]}

SourceChunks ==
  {TextStart(id) : id \in SegmentIds}
    \cup {TextDelta(JStr(<<"t1">>), JStr(p)) : p \in Pieces}
    \cup {TextEnd(id) : id \in SegmentIds}
    \cup OtherChunks

\* The four events enqueued for one parsed call.
toolCallEvents(call) ==
  << ToolInputStart(Get(call, <<"callId">>), Get(call, <<"name">>)),
     ToolInputDelta(Get(call, <<"callId">>), Get(call, <<"arguments">>)),
     ToolInputEnd(Get(call, <<"callId">>)),
     ToolCall(Get(call, <<"callId">>), Get(call, <<"name">>), Get(call, <<"arguments">>)) >>

\* Mutant: the calls are taken last first.
RECURSIVE forEachToolCallReversed(_)
forEachToolCallReversed(calls) ==
  IF calls = <<>> THEN <<>>
  ELSE forEachToolCallReversed(Tail(calls)) \o toolCallEvents(Head(calls))

\* for (const call of toolCalls) { ... }
RECURSIVE forEachToolCall(_)
forEachToolCall(calls) ==
  IF calls = <<>> THEN <<>>
  ELSE toolCallEvents(Head(calls)) \o forEachToolCall(Tail(calls))

\* The else branch of text-end: the buffered text under the remembered id.
forwardBufferedText(id, text) ==
  IF Truthy(id)
    THEN <<TextStart(id), TextDelta(id, JStr(text)), TextEnd(id)>>
    ELSE <<>>

\* What transform enqueues on text-end.
onTextEnd(calls, id, text) ==
  IF Truthy(calls) THEN forEachToolCall(calls.a) ELSE forwardBufferedText(id, text)

StreamInit ==
  /\ bufferedText = <<>>
  /\ textId = JNull
  /\ chunk = NoChunk
  /\ enqueued = <<>>
  /\ streamToolCalls = JUndefined
  /\ pieces = <<>>
  /\ segment = "idle"
  /\ streamPc = "open"

\* Mutant: a text-delta is forwarded as it arrives.
transformForwardsDelta(c) ==
  /\ streamPc = "open"
  /\ c.type = "text-delta" => Len(pieces) < MaxDeltas
  /\ chunk' = c
  /\ CASE c.type = "text-start" ->
            /\ textId' = c.id
            /\ bufferedText' = <<>>
            /\ enqueued' = <<>>
            /\ streamToolCalls' = JUndefined
            /\ pieces' = <<>>
            /\ segment' = "open"
       [] c.type = "text-delta" ->
            /\ bufferedText' = bufferedText \o c.delta.s
            /\ enqueued' = <<c>>
            /\ streamToolCalls' = JUndefined
            /\ pieces' = Append(pieces, c.delta.s)
            /\ segment' = IF segment = "open" THEN "open" ELSE "stray"
            /\ UNCHANGED textId
       [] c.type = "text-end" ->
            /\ streamToolCalls' = parseToolCallResponse(bufferedText)
            /\ enqueued' = IF streamToolCalls' = Thrown THEN <<>>
                           ELSE onTextEnd(streamToolCalls', textId, bufferedText)
            /\ segment' = IF segment = "open" THEN "ended" ELSE "stray"
            /\ UNCHANGED <<bufferedText, textId, pieces>>
       [] OTHER ->
            /\ enqueued' = <<c>>
            /\ streamToolCalls' = JUndefined
            /\ segment' = IF segment = "open" THEN "open" ELSE "idle"
            /\ UNCHANGED <<bufferedText, textId, pieces>>
  /\ streamPc' = IF streamToolCalls' = Thrown THEN "errored" ELSE streamPc
  /\ UNCHANGED <<genVars, serializerVars, cacheVars, notifyVars, polyfillVars, settingsVars, summaryVars>>

\* Mutant: a chunk of another type is not forwarded while a segment is buffered.
transformHoldsOthers(c) ==
  /\ streamPc = "open"
  /\ c.type = "text-delta" => Len(pieces) < MaxDeltas
  /\ chunk' = c
  /\ CASE c.type = "text-start" ->
            /\ textId' = c.id
            /\ bufferedText' = <<>>
            /\ enqueued' = <<>>
            /\ streamToolCalls' = JUndefined
            /\ pieces' = <<>>
            /\ segment' = "open"
       [] c.type = "text-delta" ->
            /\ bufferedText' = bufferedText \o c.delta.s
            /\ enqueued' = <<>>
            /\ streamToolCalls' = JUndefined
            /\ pieces' = Append(pieces, c.delta.s)
            /\ segment' = IF segment = "open" THEN "open" ELSE "stray"
            /\ UNCHANGED textId
       [] c.type = "text-end" ->
            /\ streamToolCalls' = parseToolCallResponse(bufferedText)
            /\ enqueued' = IF streamToolCalls' = Thrown THEN <<>>
                           ELSE onTextEnd(streamToolCalls', textId, bufferedText)
            /\ segment' = IF segment = "open" THEN "ended" ELSE "stray"
            /\ UNCHANGED <<bufferedText, textId, pieces>>
       [] OTHER ->
            /\ enqueued' = IF segment = "open" THEN <<>> ELSE <<c>>
            /\ streamToolCalls' = JUndefined
            /\ segment' = IF segment = "open" THEN "open" ELSE "idle"
            /\ UNCHANGED <<bufferedText, textId, pieces>>
  /\ streamPc' = IF streamToolCalls' = Thrown THEN "errored" ELSE streamPc
  /\ UNCHANGED <<genVars, serializerVars, cacheVars, notifyVars, polyfillVars, settingsVars, summaryVars>>

\* transform(chunk, controller)
transform(c) ==
  /\ streamPc = "open"
  /\ c.type = "text-delta" => Len(pieces) < MaxDeltas
  /\ chunk' = c
  /\ CASE c.type = "text-start" ->
            /\ textId' = c.id
            /\ bufferedText' = <<>>
            /\ enqueued' = <<>>
            /\ streamToolCalls' = JUndefined
            /\ pieces' = <<>>
            /\ segment' = "open"
       [] c.type = "text-delta" ->
            /\ bufferedText' = bufferedText \o c.delta.s
            /\ enqueued' = <<>>
            /\ streamToolCalls' = JUndefined
            /\ pieces' = Append(pieces, c.delta.s)
            /\ segment' = IF segment = "open" THEN "open" ELSE "stray"
            /\ UNCHANGED textId
       [] c.type = "text-end" ->
            /\ streamToolCalls' = parseToolCallResponse(bufferedText)
            /\ enqueued' = IF streamToolCalls' = Thrown THEN <<>>
                           ELSE onTextEnd(streamToolCalls', textId, bufferedText)
            /\ segment' = IF segment = "open" THEN "ended" ELSE "stray"
            /\ UNCHANGED <<bufferedText, textId, pieces>>
       [] OTHER ->
            /\ enqueued' = <<c>>
            /\ streamToolCalls' = JUndefined
            /\ segment' = IF segment = "open" THEN "open" ELSE "idle"
            /\ UNCHANGED <<bufferedText, textId, pieces>>
  /\ streamPc' = IF streamToolCalls' = Thrown THEN "errored" ELSE streamPc
  /\ UNCHANGED <<genVars, serializerVars, cacheVars, notifyVars, polyfillVars, settingsVars, summaryVars>>

\* The source stream ends: the TransformStream has no flush, the output closes.
closeStream ==
  /\ streamPc = "open"
  /\ streamPc' = "closed"
  /\ chunk' = NoChunk
  /\ enqueued' = <<>>
  /\ streamToolCalls' = JUndefined
  /\ UNCHANGED <<bufferedText, textId, pieces, segment>>
  /\ UNCHANGED <<genVars, serializerVars, cacheVars, notifyVars, polyfillVars, settingsVars, summaryVars>>

\* The next call of doStream: a new pair of closure variables.
doStream ==
  /\ streamPc \in {"closed", "errored"}
  /\ bufferedText' = <<>>
  /\ textId' = JNull
  /\ chunk' = NoChunk
  /\ enqueued' = <<>>
  /\ streamToolCalls' = JUndefined
  /\ pieces' = <<>>
  /\ segment' = "idle"
  /\ streamPc' = "open"
  /\ UNCHANGED <<genVars, serializerVars, cacheVars, notifyVars, polyfillVars, settingsVars, summaryVars>>

(***************************************************************************)
(* The inference serializer: acquireModelExecutionSlot,                    *)
(* wrapSerializedStream and createSerializedInferenceProxy.                *)
(*                                                                         *)
(* Calls 1..MaxCalls of serializedDoGenerate / serializedDoStream are made *)
(* in the order of their numbers, each on one of the model objects.        *)
(*   modelExecutionQueue[h]  the call whose queueTail is the map's entry   *)
(*                           for model h, 0 when the map has no entry      *)
(*   callPc[c]      where call c stands                                    *)
(*   callModel[c], callKind[c]  its model object and "generate"/"stream"   *)
(*   previous[c]    the call whose queueTail is c's previous promise,      *)
(*                  0 for Promise.resolve()                                 *)
(*   released[c]    the released flag of c's release closure; current is   *)
(*                  resolved exactly when it is set                         *)
(*   releaseCalls[c]   how often c's release closure was invoked           *)
(*   source[c]      the stream of originalDoStream: "none", "open",        *)
(*                  "closed", "errored", "cancelled"                        *)
(*   reading[c]     pull awaits reader.read()                              *)
(*   cancelling[c]  cancel awaits reader.cancel(reason)                    *)
(*   streamReleased[c]  the released flag of wrapSerializedStream          *)
(*   wrapperReleases[c] how often the release of wrapSerializedStream was  *)
(*                  invoked                                                 *)
(*   cancelReason[c]   the argument reader.cancel was called with          *)
(*   callResult[c]  the promise serializedDoGenerate / serializedDoStream  *)
(*                  returned to the caller of c                             *)
(*   cancelOutcome[c]  the promise cancel of the wrapped stream returned   *)
(***************************************************************************)


Calls == 1..MaxCalls

\* The reason the consumer of call c cancels with, and the error the
\* underlying call or reader of c fails with: one value of its own per call.
ReasonOf(c) == [reason |-> c]
ErrorOf(c) == [error |-> c]

\* A promise, or a function, before it is called, and the states of a promise.
NotCalled == [state |-> "not-called"]
Pending == [state |-> "pending"]
Fulfilled(v) == [state |-> "fulfilled", value |-> v]
Rejected(e) == [state |-> "rejected", error |-> e]
CalledWith(a) == [state |-> "called", argument |-> a]
Models == {"m1", "m2"}
CallKinds == {"generate", "stream"}

SerializerInit ==
  /\ modelExecutionQueue = [h \in Models |-> 0]
  /\ callPc = [c \in Calls |-> "idle"]
  /\ callModel = [c \in Calls |-> "m1"]
  /\ callKind = [c \in Calls |-> "generate"]
  /\ previous = [c \in Calls |-> 0]
  /\ released = [c \in Calls |-> FALSE]
  /\ releaseCalls = [c \in Calls |-> 0]
  /\ source = [c \in Calls |-> "none"]
  /\ reading = [c \in Calls |-> FALSE]
  /\ cancelling = [c \in Calls |-> FALSE]
  /\ streamReleased = [c \in Calls |-> FALSE]
  /\ wrapperReleases = [c \in Calls |-> 0]
  /\ cancelReason = [c \in Calls |-> NotCalled]
  /\ callResult = [c \in Calls |-> NotCalled]
  /\ cancelOutcome = [c \in Calls |-> NotCalled]

\* The queueTail of call c, previous.catch(..).then(() => current), is settled
\* when previous is and current is resolved.
RECURSIVE queueTailSettled(_)
queueTailSettled(c) ==
  IF c = 0 THEN TRUE ELSE released[c] /\ queueTailSettled(previous[c])

\* acquireModelExecutionSlot up to its await: call c is made on model h.  The
\* model objects are interchangeable, the one of the first call is named m1.
acquireModelExecutionSlot(c, h, k) ==
  /\ callPc[c] = "idle"
  /\ c > 1 => callPc[c - 1] # "idle"
  /\ c = 1 => h = "m1"
  /\ previous' = [previous EXCEPT ![c] = modelExecutionQueue[h]]
  /\ modelExecutionQueue' = [modelExecutionQueue EXCEPT ![h] = c]
  /\ callModel' = [callModel EXCEPT ![c] = h]
  /\ callKind' = [callKind EXCEPT ![c] = k]
  /\ callPc' = [callPc EXCEPT ![c] = "acquiring"]
  /\ callResult' = [callResult EXCEPT ![c] = Pending]
  /\ UNCHANGED <<released, releaseCalls, source, reading, cancelling, streamReleased,
                 wrapperReleases, cancelReason, cancelOutcome>>
  /\ UNCHANGED <<genVars, streamVars, cacheVars, notifyVars, polyfillVars, settingsVars, summaryVars>>

\* Mutant: the caller does not wait for previous.
previousSettledDropped(c) == TRUE

\* await previous.catch(() => undefined) has settled.
previousSettled(c) == queueTailSettled(previous[c])

\* The await of acquireModelExecutionSlot resumes, the release closure is
\* returned and the caller starts originalDoGenerate / originalDoStream.
slotGranted(c) ==
  /\ callPc[c] = "acquiring"
  /\ previousSettled(c)
  /\ callPc' = [callPc EXCEPT ![c] =
                  IF callKind[c] = "generate" THEN "generating" ELSE "constructing"]
  /\ UNCHANGED <<modelExecutionQueue, callModel, callKind, previous, released,
                 releaseCalls, source, reading, cancelling, streamReleased,
                 wrapperReleases>>
  /\ UNCHANGED outcomeVars
  /\ UNCHANGED <<genVars, streamVars, cacheVars, notifyVars, polyfillVars, settingsVars, summaryVars>>

\* Mutant: release deletes the map entry whoever's queueTail it holds.
queueAfterReleaseAlways(c) == [modelExecutionQueue EXCEPT ![callModel[c]] = 0]

\* if (modelExecutionQueue.get(model) === queueTail) modelExecutionQueue.delete(model)
queueAfterRelease(c) ==
  IF modelExecutionQueue[callModel[c]] = c
    THEN [modelExecutionQueue EXCEPT ![callModel[c]] = 0]
    ELSE modelExecutionQueue

\* Mutant: a release closure without its released flag and without the test
\* that the map entry is its own queueTail.
releaseExecutionSlotUnguarded(c) ==
  /\ releaseCalls' = [releaseCalls EXCEPT ![c] = @ + 1]
  /\ released' = [released EXCEPT ![c] = TRUE]
  /\ modelExecutionQueue' = [modelExecutionQueue EXCEPT ![callModel[c]] = 0]

\* The release closure acquireModelExecutionSlot returns, invoked for call c.
releaseExecutionSlot(c) ==
  /\ releaseCalls' = [releaseCalls EXCEPT ![c] = @ + 1]
  /\ IF released[c]
       THEN UNCHANGED <<released, modelExecutionQueue>>
       ELSE /\ released' = [released EXCEPT ![c] = TRUE]
            /\ modelExecutionQueue' = queueAfterRelease(c)

\* The release closure of call c is invoked once more by whoever holds it.
releaseAgain(c) ==
  /\ releaseCalls[c] >= 1
  /\ releaseCalls[c] < MaxReleases
  /\ releaseExecutionSlot(c)
  /\ UNCHANGED <<callPc, callModel, callKind, previous, source, reading, cancelling,
                 streamReleased, wrapperReleases, outcomeVars>>
  /\ UNCHANGED <<genVars, streamVars, cacheVars, notifyVars, polyfillVars, settingsVars, summaryVars>>

\* Mutant: the release of wrapSerializedStream without its released flag, on a
\* release closure that resolves current again.
releaseUnguarded(c) ==
  /\ wrapperReleases' = [wrapperReleases EXCEPT ![c] = @ + 1]
  /\ streamReleased' = [streamReleased EXCEPT ![c] = TRUE]
  /\ releaseExecutionSlot(c)

\* The release of wrapSerializedStream.
release(c) ==
  /\ wrapperReleases' = [wrapperReleases EXCEPT ![c] = @ + 1]
  /\ IF streamReleased[c]
       THEN UNCHANGED <<streamReleased, released, modelExecutionQueue, releaseCalls>>
       ELSE /\ streamReleased' = [streamReleased EXCEPT ![c] = TRUE]
            /\ releaseExecutionSlot(c)

\* serializedDoGenerate: originalDoGenerate resolves; finally, then the value
\* is returned.
doGenerateResolves(c) ==
  /\ callPc[c] = "generating"
  /\ callPc' = [callPc EXCEPT ![c] = "done"]
  /\ releaseExecutionSlot(c)
  /\ callResult' = [callResult EXCEPT ![c] = Fulfilled("result")]
  /\ UNCHANGED <<callModel, callKind, previous, source, reading, cancelling, streamReleased,
                 wrapperReleases, cancelReason, cancelOutcome>>
  /\ UNCHANGED <<genVars, streamVars, cacheVars, notifyVars, polyfillVars, settingsVars, summaryVars>>

\* serializedDoGenerate: originalDoGenerate rejects; finally, then the error
\* leaves the function.
doGenerateRejects(c) ==
  /\ callPc[c] = "generating"
  /\ callPc' = [callPc EXCEPT ![c] = "done"]
  /\ releaseExecutionSlot(c)
  /\ callResult' = [callResult EXCEPT ![c] = Rejected(ErrorOf(c))]
  /\ UNCHANGED <<callModel, callKind, previous, source, reading, cancelling, streamReleased,
                 wrapperReleases, cancelReason, cancelOutcome>>
  /\ UNCHANGED <<genVars, streamVars, cacheVars, notifyVars, polyfillVars, settingsVars, summaryVars>>

\* Mutant: serializedDoStream without its catch clause.
doStreamRejectsNoRelease(c) ==
  /\ callPc[c] = "constructing"
  /\ callPc' = [callPc EXCEPT ![c] = "done"]
  /\ callResult' = [callResult EXCEPT ![c] = Rejected(ErrorOf(c))]
  /\ UNCHANGED <<modelExecutionQueue, released, releaseCalls>>
  /\ UNCHANGED <<callModel, callKind, previous, source, reading, cancelling, streamReleased,
                 wrapperReleases, cancelReason, cancelOutcome>>
  /\ UNCHANGED <<genVars, streamVars, cacheVars, notifyVars, polyfillVars, settingsVars, summaryVars>>

\* serializedDoStream: originalDoStream throws or rejects; catch.
doStreamRejects(c) ==
  /\ callPc[c] = "constructing"
  /\ callPc' = [callPc EXCEPT ![c] = "done"]
  /\ releaseExecutionSlot(c)
  /\ callResult' = [callResult EXCEPT ![c] = Rejected(ErrorOf(c))]
  /\ UNCHANGED <<callModel, callKind, previous, source, reading, cancelling, streamReleased,
                 wrapperReleases, cancelReason, cancelOutcome>>
  /\ UNCHANGED <<genVars, streamVars, cacheVars, notifyVars, polyfillVars, settingsVars, summaryVars>>

\* serializedDoStream: originalDoStream resolves; the stream is wrapped and
\* returned with the slot still held.
doStreamResolves(c) ==
  /\ callPc[c] = "constructing"
  /\ callPc' = [callPc EXCEPT ![c] = "streaming"]
  /\ source' = [source EXCEPT ![c] = "open"]
  /\ callResult' = [callResult EXCEPT ![c] = Fulfilled("stream")]
  /\ UNCHANGED <<modelExecutionQueue, callModel, callKind, previous, released,
                 releaseCalls, reading, cancelling, streamReleased,
                 wrapperReleases, cancelReason, cancelOutcome>>
  /\ UNCHANGED <<genVars, streamVars, cacheVars, notifyVars, polyfillVars, settingsVars, summaryVars>>

\* pull(controller) is called and awaits reader.read().
pull(c) ==
  /\ callPc[c] = "streaming"
  /\ source[c] = "open"
  /\ ~reading[c]
  /\ reading' = [reading EXCEPT ![c] = TRUE]
  /\ UNCHANGED <<modelExecutionQueue, callPc, callModel, callKind, previous, released,
                 releaseCalls, source, cancelling, streamReleased, wrapperReleases>>
  /\ UNCHANGED outcomeVars
  /\ UNCHANGED <<genVars, streamVars, cacheVars, notifyVars, polyfillVars, settingsVars, summaryVars>>

\* reader.read() gives a value: controller.enqueue(value).
readValue(c) ==
  /\ reading[c]
  /\ source[c] = "open"
  /\ reading' = [reading EXCEPT ![c] = FALSE]
  /\ UNCHANGED <<modelExecutionQueue, callPc, callModel, callKind, previous, released,
                 releaseCalls, source, cancelling, streamReleased, wrapperReleases>>
  /\ UNCHANGED outcomeVars
  /\ UNCHANGED <<genVars, streamVars, cacheVars, notifyVars, polyfillVars, settingsVars, summaryVars>>

\* reader.read() reports done: release(); controller.close().
readDone(c) ==
  /\ reading[c]
  /\ source[c] = "open"
  /\ reading' = [reading EXCEPT ![c] = FALSE]
  /\ source' = [source EXCEPT ![c] = "closed"]
  /\ callPc' = [callPc EXCEPT ![c] = "done"]
  /\ release(c)
  /\ UNCHANGED <<callModel, callKind, previous, cancelling>>
  /\ UNCHANGED outcomeVars
  /\ UNCHANGED <<genVars, streamVars, cacheVars, notifyVars, polyfillVars, settingsVars, summaryVars>>

\* Mutant: the catch clause of pull without release().
readErrorNoRelease(c) ==
  /\ reading[c]
  /\ source[c] = "open"
  /\ reading' = [reading EXCEPT ![c] = FALSE]
  /\ source' = [source EXCEPT ![c] = "errored"]
  /\ callPc' = [callPc EXCEPT ![c] = "done"]
  /\ UNCHANGED <<modelExecutionQueue, released, releaseCalls, streamReleased, wrapperReleases>>
  /\ UNCHANGED <<callModel, callKind, previous, cancelling>>
  /\ UNCHANGED outcomeVars
  /\ UNCHANGED <<genVars, streamVars, cacheVars, notifyVars, polyfillVars, settingsVars, summaryVars>>

\* reader.read() rejects: release(); controller.error(error).
readError(c) ==
  /\ reading[c]
  /\ source[c] = "open"
  /\ reading' = [reading EXCEPT ![c] = FALSE]
  /\ source' = [source EXCEPT ![c] = "errored"]
  /\ callPc' = [callPc EXCEPT ![c] = "done"]
  /\ release(c)
  /\ UNCHANGED <<callModel, callKind, previous, cancelling>>
  /\ UNCHANGED outcomeVars
  /\ UNCHANGED <<genVars, streamVars, cacheVars, notifyVars, polyfillVars, settingsVars, summaryVars>>

\* The consumer cancels the wrapped stream: cancel(reason) calls
\* reader.cancel(reason) and awaits it.
cancel(c) ==
  /\ callPc[c] = "streaming"
  /\ source[c] = "open"
  /\ source' = [source EXCEPT ![c] = "cancelled"]
  /\ cancelling' = [cancelling EXCEPT ![c] = TRUE]
  /\ cancelReason' = [cancelReason EXCEPT ![c] = CalledWith(ReasonOf(c))]
  /\ cancelOutcome' = [cancelOutcome EXCEPT ![c] = Pending]
  /\ UNCHANGED <<modelExecutionQueue, callPc, callModel, callKind, previous, released,
                 releaseCalls, reading, streamReleased, wrapperReleases, callResult>>
  /\ UNCHANGED <<genVars, streamVars, cacheVars, notifyVars, polyfillVars, settingsVars, summaryVars>>

\* A read that was pending when the source was cancelled reports done:
\* release() in pull.
readAfterCancel(c) ==
  /\ reading[c]
  /\ source[c] = "cancelled"
  /\ reading' = [reading EXCEPT ![c] = FALSE]
  /\ release(c)
  /\ UNCHANGED <<callPc, callModel, callKind, previous, source, cancelling>>
  /\ UNCHANGED outcomeVars
  /\ UNCHANGED <<genVars, streamVars, cacheVars, notifyVars, polyfillVars, settingsVars, summaryVars>>

\* reader.cancel(reason) resolves: finally release().
cancelResolves(c) ==
  /\ cancelling[c]
  /\ cancelling' = [cancelling EXCEPT ![c] = FALSE]
  /\ callPc' = [callPc EXCEPT ![c] = "done"]
  /\ release(c)
  /\ cancelOutcome' = [cancelOutcome EXCEPT ![c] = Fulfilled("undefined")]
  /\ UNCHANGED <<callModel, callKind, previous, source, reading, cancelReason, callResult>>
  /\ UNCHANGED <<genVars, streamVars, cacheVars, notifyVars, polyfillVars, settingsVars, summaryVars>>

\* Mutant: cancel without try / finally, release() after the await.
cancelRejectsNoRelease(c) ==
  /\ cancelling[c]
  /\ cancelling' = [cancelling EXCEPT ![c] = FALSE]
  /\ callPc' = [callPc EXCEPT ![c] = "done"]
  /\ cancelOutcome' = [cancelOutcome EXCEPT ![c] = Rejected(ErrorOf(c))]
  /\ UNCHANGED <<modelExecutionQueue, released, releaseCalls, streamReleased, wrapperReleases>>
  /\ UNCHANGED <<callModel, callKind, previous, source, reading, cancelReason, callResult>>
  /\ UNCHANGED <<genVars, streamVars, cacheVars, notifyVars, polyfillVars, settingsVars, summaryVars>>

\* reader.cancel(reason) rejects: finally release(), then the rejection
\* leaves cancel.
cancelRejects(c) ==
  /\ cancelling[c]
  /\ cancelling' = [cancelling EXCEPT ![c] = FALSE]
  /\ callPc' = [callPc EXCEPT ![c] = "done"]
  /\ release(c)
  /\ cancelOutcome' = [cancelOutcome EXCEPT ![c] = Rejected(ErrorOf(c))]
  /\ UNCHANGED <<callModel, callKind, previous, source, reading, cancelReason, callResult>>
  /\ UNCHANGED <<genVars, streamVars, cacheVars, notifyVars, polyfillVars, settingsVars, summaryVars>>

(***************************************************************************)
(* The model caches and the initialization of a model:                     *)
(* getOrCreateWebLLMModel, getOrCreateTransformersModel,                   *)
(* initializeWebLLMModel, initializeTransformersModel, the provider        *)
(* factories and the preload functions.  Both providers run the same code  *)
(* on their own maps; p is "web-llm" or "transformers-js".                 *)
(*   models[p][n]   the handle the map webLLMModels / transformersModels   *)
(*                  holds for name n, 0 when it has no entry; handles of   *)
(*                  a name are numbered in the order they are constructed  *)
(*   constructed[p][n]  how often webLLM(n, ..) / transformersJS(n, ..)    *)
(*                  was called                                              *)
(*   handed[p][n]   the handles factory has returned for name n            *)
(*   initialization[p][n]  the entry of webLLMModelInitialization /        *)
(*                  transformersModelInitialization: "none" when absent,   *)
(*                  else where the pending promise stands: "availability"  *)
(*                  or "creating"                                           *)
(*   requests       how many calls of a factory or of a preload were made  *)
(*   initFailures[p][n]  the handles of name n whose initialization promise *)
(*                  was rejected                                            *)
(*   inFlight[p][n]  how many initialization promises of name n are        *)
(*                  pending, each awaiting availability() or               *)
(*                  createSessionWithProgress()                            *)
(***************************************************************************)


Providers == {"web-llm", "transformers-js"}
ModelNames == {"qwen", "llama"}
Availabilities == {"available", "unavailable", "downloadable", "downloading"}

CacheInit ==
  /\ models = [p \in Providers |-> [n \in ModelNames |-> 0]]
  /\ constructed = [p \in Providers |-> [n \in ModelNames |-> 0]]
  /\ handed = [p \in Providers |-> [n \in ModelNames |-> {}]]
  /\ initialization = [p \in Providers |-> [n \in ModelNames |-> "none"]]
  /\ requests = 0
  /\ initFailures = [p \in Providers |-> [n \in ModelNames |-> {}]]
  /\ inFlight = [p \in Providers |-> [n \in ModelNames |-> 0]]

\* let model = map.get(modelName); if (!model) { model = construct; map.set }
\* The map and the count of constructions after getOrCreate for the names in S,
\* given as [models, constructed].
modelsAfterGetOrCreate(ms, S) ==
  [n \in ModelNames |-> IF n \in S /\ ms.models[n] = 0
                          THEN ms.constructed[n] + 1 ELSE ms.models[n]]

constructedAfterGetOrCreate(ms, S) ==
  [n \in ModelNames |-> IF n \in S /\ ms.models[n] = 0
                          THEN ms.constructed[n] + 1 ELSE ms.constructed[n]]

\* Mutant: the lookup in the map misses, every request constructs a model.
getOrCreateModelNoLookup(ms, S) ==
  [models |-> [n \in ModelNames |-> IF n \in S THEN ms.constructed[n] + 1 ELSE ms.models[n]],
   constructed |-> [n \in ModelNames |-> IF n \in S THEN ms.constructed[n] + 1
                                          ELSE ms.constructed[n]]]

getOrCreateModel(ms, S) ==
  [models |-> modelsAfterGetOrCreate(ms, S),
   constructed |-> constructedAfterGetOrCreate(ms, S)]

getOrCreateWebLLMModel(ms, S) == getOrCreateModel(ms, S)
getOrCreateTransformersModel(ms, S) == getOrCreateModel(ms, S)

getOrCreate(p, ms, S) ==
  IF p = "web-llm" THEN getOrCreateWebLLMModel(ms, S)
  ELSE getOrCreateTransformersModel(ms, S)

\* Mutant: the lookup of an existing initialization misses.
startsInitializationAlways(p, S) == S

\* The names of S for which initialize starts a new initialization: those
\* with no entry in the initialization map.
startsInitialization(p, S) == {n \in S : initialization[p][n] = "none"}

\* initializeWebLLMModel / initializeTransformersModel up to the first await,
\* for every name of S: an existing initialization is returned, else the model
\* is looked up or created and a new initialization awaits availability().
initializeModels(p, S, ms) ==
  LET new == startsInitialization(p, S)
      after == getOrCreate(p, ms, new)
  IN /\ models' = [models EXCEPT ![p] = after.models]
     /\ constructed' = [constructed EXCEPT ![p] = after.constructed]
     /\ initialization' = [initialization EXCEPT ![p] =
          [n \in ModelNames |-> IF n \in new THEN "availability" ELSE @[n]]]
     /\ inFlight' = [inFlight EXCEPT ![p] =
          [n \in ModelNames |-> IF n \in new THEN @[n] + 1 ELSE @[n]]]

cacheOf(p) == [models |-> models[p], constructed |-> constructed[p]]

\* factory(options) of a registered provider, for model name n.
factory(p, n) ==
  /\ requests < MaxRequests
  /\ requests' = requests + 1
  /\ LET got == getOrCreate(p, cacheOf(p), {n})
     IN /\ handed' = [handed EXCEPT ![p][n] = @ \cup {got.models[n]}]
        /\ initializeModels(p, {n}, got)
  /\ UNCHANGED initFailures
  /\ UNCHANGED <<genVars, streamVars, serializerVars, notifyVars, polyfillVars, settingsVars, summaryVars>>

\* preloadConfiguredWebLLMModels / preloadConfiguredTransformersModels with
\* the names S configured for the provider.
preloadConfiguredModels(p, S) ==
  /\ requests < MaxRequests
  /\ requests' = requests + 1
  /\ initializeModels(p, S, cacheOf(p))
  /\ UNCHANGED <<handed, initFailures>>
  /\ UNCHANGED <<genVars, streamVars, serializerVars, notifyVars, polyfillVars, settingsVars, summaryVars>>

\* await model.availability() answers a: "available" resolves the
\* initialization, "unavailable" rejects it, and else the session is created.
\* The finally of a settled initialization deletes its entry.
availabilityAnswers(p, n, a) ==
  /\ initialization[p][n] = "availability"
  /\ initialization' = [initialization EXCEPT ![p][n] =
       IF a \in {"available", "unavailable"} THEN "none" ELSE "creating"]
  /\ initFailures' = [initFailures EXCEPT ![p][n] =
       IF a = "unavailable" THEN @ \cup {models[p][n]} ELSE @]
  /\ inFlight' = [inFlight EXCEPT ![p][n] =
       IF a \in {"available", "unavailable"} THEN @ - 1 ELSE @]
  /\ UNCHANGED <<models, constructed, handed, requests>>
  /\ UNCHANGED <<genVars, streamVars, serializerVars, notifyVars, polyfillVars, settingsVars, summaryVars>>

\* await model.createSessionWithProgress() resolves; the finally of the
\* initialization promise deletes the entry.
createSessionResolves(p, n) ==
  /\ initialization[p][n] = "creating"
  /\ initialization' = [initialization EXCEPT ![p][n] = "none"]
  /\ inFlight' = [inFlight EXCEPT ![p][n] = @ - 1]
  /\ UNCHANGED <<models, constructed, handed, requests, initFailures>>
  /\ UNCHANGED <<genVars, streamVars, serializerVars, notifyVars, polyfillVars, settingsVars, summaryVars>>

\* await model.createSessionWithProgress() rejects: the error is rethrown and
\* the finally of the initialization promise deletes the entry.
createSessionRejects(p, n) ==
  /\ initialization[p][n] = "creating"
  /\ initialization' = [initialization EXCEPT ![p][n] = "none"]
  /\ initFailures' = [initFailures EXCEPT ![p][n] = @ \cup {models[p][n]}]
  /\ inFlight' = [inFlight EXCEPT ![p][n] = @ - 1]
  /\ UNCHANGED <<models, constructed, handed, requests>>
  /\ UNCHANGED <<genVars, streamVars, serializerVars, notifyVars, polyfillVars, settingsVars, summaryVars>>

(***************************************************************************)
(* initializeTransformersModel: one load that has to create a session, and *)
(* the notification of its progress.  Progress is counted in thousandths.  *)
(*   loadPc     "idle" while availability() is awaited, "loading" while     *)
(*              createSessionWithProgress is awaited, then "ready" or       *)
(*              "failed"; "available" and "unavailable" when availability() *)
(*              settled the initialization                                  *)
(*   notificationId   the id Notification.emit returned, 0 for null        *)
(*   latestProgress   the last clamped progress                             *)
(*   notificationDelayTimeout  "set" while the variable holds the handle   *)
(*              of the timer, else "null"                                   *)
(*   timer      the timer of window.setTimeout: "none", "pending",          *)
(*              "fired", "cleared"                                          *)
(*   notifications   the notifications of the sink, in the order they were *)
(*              emitted; the id of a notification is its position           *)
(*   progressEvents  how many progress reports were made                    *)
(***************************************************************************)
RawProgresses == {-500, 0, 4, 255, 500, 1000, 1500}

\* Math.max(0, Math.min(1, progress))
clampedProgress(progress) == Max({0, Min({1000, progress})})

\* Math.round(progress * 100)
percentage(progress) == (progress + 5) \div 10

\* getTransformersProgressMessage(modelName, Math.round(progress * 100))
getTransformersProgressMessage(progress) ==
  IF percentage(progress) <= 0 THEN <<"Preparing">>
  ELSE <<"Loading", percentage(progress)>>

NotifyInit ==
  /\ loadPc = "idle"
  /\ notificationId = 0
  /\ latestProgress = 0
  /\ notificationDelayTimeout = "null"
  /\ timer = "none"
  /\ notifications = <<>>
  /\ progressEvents = 0

\* Notification.update({id, ...fields}): the fields given replace the old ones.
NotificationUpdate(id, fields) ==
  [notifications EXCEPT ![id] =
     [k \in DOMAIN @ |-> IF k \in DOMAIN fields THEN fields[k] ELSE @[k]]]

\* The availability is neither available nor unavailable: the timer is set
\* and createSessionWithProgress is called.
createSessionWithProgress ==
  /\ loadPc = "idle"
  /\ loadPc' = "loading"
  /\ notificationDelayTimeout' = "set"
  /\ timer' = "pending"
  /\ UNCHANGED <<notificationId, latestProgress, notifications, progressEvents>>
  /\ UNCHANGED <<genVars, streamVars, serializerVars, cacheVars, polyfillVars, settingsVars, summaryVars>>

\* The delay has elapsed: the timer calls ensureNotification().
ensureNotification ==
  /\ timer = "pending"
  /\ timer' = "fired"
  /\ IF notificationId # 0
       THEN UNCHANGED <<notificationId, notifications>>
       ELSE /\ notifications' = Append(notifications,
                 [message |-> getTransformersProgressMessage(latestProgress),
                  type |-> "in-progress", progress |-> latestProgress,
                  autoClose |-> "false"])
            /\ notificationId' = Len(notifications) + 1
  /\ UNCHANGED <<loadPc, latestProgress, notificationDelayTimeout, progressEvents>>
  /\ UNCHANGED <<genVars, streamVars, serializerVars, cacheVars, polyfillVars, settingsVars, summaryVars>>

\* Mutant: the progress callback emits a notification for every report.
onProgressEmits(progress) ==
  /\ loadPc = "loading"
  /\ progressEvents < MaxProgressEvents
  /\ progressEvents' = progressEvents + 1
  /\ latestProgress' = clampedProgress(progress)
  /\ notifications' = Append(notifications,
        [message |-> getTransformersProgressMessage(clampedProgress(progress)),
         type |-> "in-progress", progress |-> clampedProgress(progress),
         autoClose |-> "false"])
  /\ notificationId' = Len(notifications) + 1
  /\ UNCHANGED <<loadPc, notificationDelayTimeout, timer>>
  /\ UNCHANGED <<genVars, streamVars, serializerVars, cacheVars, polyfillVars, settingsVars, summaryVars>>

\* The callback given to createSessionWithProgress is called with a progress.
onProgress(progress) ==
  /\ loadPc = "loading"
  /\ progressEvents < MaxProgressEvents
  /\ progressEvents' = progressEvents + 1
  /\ latestProgress' = clampedProgress(progress)
  /\ IF notificationId # 0
       THEN notifications' = NotificationUpdate(notificationId,
              [message |-> getTransformersProgressMessage(clampedProgress(progress)),
               progress |-> clampedProgress(progress)])
       ELSE UNCHANGED notifications
  /\ UNCHANGED <<loadPc, notificationId, notificationDelayTimeout, timer>>
  /\ UNCHANGED <<genVars, streamVars, serializerVars, cacheVars, polyfillVars, settingsVars, summaryVars>>

\* if (notificationDelayTimeout !== null) { clearTimeout(..); .. = null; }
\* clearTimeout of a timer that has fired does nothing.
timerAfterClear == IF timer = "pending" THEN "cleared" ELSE timer

\* Mutant: the try block without its clearTimeout.
sessionCreatedNoClear ==
  /\ loadPc = "loading"
  /\ loadPc' = "ready"
  /\ IF notificationId # 0
       THEN notifications' = NotificationUpdate(notificationId,
              [message |-> <<"ready">>, type |-> "success", progress |-> 1000,
               autoClose |-> "3000"])
       ELSE UNCHANGED notifications
  /\ UNCHANGED <<notificationId, latestProgress, progressEvents, timer,
                 notificationDelayTimeout>>
  /\ UNCHANGED <<genVars, streamVars, serializerVars, cacheVars, polyfillVars, settingsVars, summaryVars>>

\* await createSessionWithProgress(..) resolves: the rest of the try block.
sessionCreated ==
  /\ loadPc = "loading"
  /\ loadPc' = "ready"
  /\ timer' = timerAfterClear
  /\ notificationDelayTimeout' = "null"
  /\ IF notificationId # 0
       THEN notifications' = NotificationUpdate(notificationId,
              [message |-> <<"ready">>, type |-> "success", progress |-> 1000,
               autoClose |-> "3000"])
       ELSE UNCHANGED notifications
  /\ UNCHANGED <<notificationId, latestProgress, progressEvents>>
  /\ UNCHANGED <<genVars, streamVars, serializerVars, cacheVars, polyfillVars, settingsVars, summaryVars>>

\* Mutant: the catch clause emits the error whether a notification is shown
\* or not.
sessionFailedEmits ==
  /\ loadPc = "loading"
  /\ loadPc' = "failed"
  /\ timer' = timerAfterClear
  /\ notificationDelayTimeout' = "null"
  /\ notifications' = Append(notifications,
        [message |-> <<"Failed">>, type |-> "error", autoClose |-> "5000"])
  /\ UNCHANGED <<notificationId, latestProgress, progressEvents>>
  /\ UNCHANGED <<genVars, streamVars, serializerVars, cacheVars, polyfillVars, settingsVars, summaryVars>>

\* await createSessionWithProgress(..) rejects: the catch clause.
sessionFailed ==
  /\ loadPc = "loading"
  /\ loadPc' = "failed"
  /\ timer' = timerAfterClear
  /\ notificationDelayTimeout' = "null"
  /\ IF notificationId # 0
       THEN notifications' = NotificationUpdate(notificationId,
              [message |-> <<"Failed">>, type |-> "error", autoClose |-> "5000"])
       ELSE notifications' = Append(notifications,
              [message |-> <<"Failed">>, type |-> "error", autoClose |-> "5000"])
  /\ UNCHANGED <<notificationId, latestProgress, progressEvents>>
  /\ UNCHANGED <<genVars, streamVars, serializerVars, cacheVars, polyfillVars, settingsVars, summaryVars>>

(***************************************************************************)
(* The same variables for one load of a WebLLM model: the handle of        *)
(* getOrCreateWebLLMModel holds notificationId, initializeWebLLMModel      *)
(* awaits the session.  WebLLM sets no timer.                              *)
(***************************************************************************)

\* const availability = await model.availability(), answering "available"
\* (return) or "unavailable" (throw new Error(..is unavailable)); the same
\* lines in initializeWebLLMModel and initializeTransformersModel.
availabilityDecides(availability) ==
  /\ loadPc = "idle"
  /\ loadPc' = availability
  /\ UNCHANGED <<notificationId, latestProgress, notificationDelayTimeout, timer,
                 notifications, progressEvents>>
  /\ UNCHANGED <<genVars, streamVars, serializerVars, cacheVars, polyfillVars, settingsVars, summaryVars>>

\* availability() answers "downloadable" or "downloading":
\* await model.createSessionWithProgress()
webLLMCreateSession ==
  /\ loadPc = "idle"
  /\ loadPc' = "loading"
  /\ UNCHANGED <<notificationId, latestProgress, notificationDelayTimeout, timer,
                 notifications, progressEvents>>
  /\ UNCHANGED <<genVars, streamVars, serializerVars, cacheVars, polyfillVars, settingsVars, summaryVars>>

\* The texts a report of WebLLM carries; "undefined" when it has none.
ReportTexts == {"undefined", "Fetching param cache"}

\* getWebLLMProgressMessage(modelName, percentage)
getWebLLMProgressMessage(progress) ==
  IF percentage(progress) <= 0 THEN <<"Preparing">>
  ELSE <<"Downloading", percentage(progress)>>

\* initProgressCallback: report => { .. }
initProgressCallback(report) ==
  /\ loadPc = "loading"
  /\ progressEvents < MaxProgressEvents
  /\ progressEvents' = progressEvents + 1
  /\ LET clamped == clampedProgress(report.progress)
         progressMessage == IF report.text # "undefined" THEN <<report.text>>
                            ELSE getWebLLMProgressMessage(clamped)
     IN IF notificationId = 0
          THEN /\ notifications' = Append(notifications,
                    [message |-> progressMessage, type |-> "in-progress",
                     progress |-> clamped, autoClose |-> "false"])
               /\ notificationId' = Len(notifications) + 1
          ELSE /\ notifications' = NotificationUpdate(notificationId,
                    IF percentage(clamped) = 100
                      THEN [message |-> <<"ready">>, type |-> "success",
                            progress |-> 1000, autoClose |-> "3000"]
                      ELSE [message |-> progressMessage, progress |-> clamped])
               /\ UNCHANGED notificationId
  /\ UNCHANGED <<loadPc, latestProgress, notificationDelayTimeout, timer>>
  /\ UNCHANGED <<genVars, streamVars, serializerVars, cacheVars, polyfillVars, settingsVars, summaryVars>>

\* await model.createSessionWithProgress() resolves.
webLLMSessionCreated ==
  /\ loadPc = "loading"
  /\ loadPc' = "ready"
  /\ UNCHANGED <<notificationId, latestProgress, notificationDelayTimeout, timer,
                 notifications, progressEvents>>
  /\ UNCHANGED <<genVars, streamVars, serializerVars, cacheVars, polyfillVars, settingsVars, summaryVars>>

\* await model.createSessionWithProgress() rejects: the catch clause.
webLLMSessionFailed ==
  /\ loadPc = "loading"
  /\ loadPc' = "failed"
  /\ notifications' = Append(notifications,
        [message |-> <<"Failed">>, type |-> "error", autoClose |-> "5000"])
  /\ UNCHANGED <<notificationId, latestProgress, notificationDelayTimeout, timer,
                 progressEvents>>
  /\ UNCHANGED <<genVars, streamVars, serializerVars, cacheVars, polyfillVars, settingsVars, summaryVars>>

(***************************************************************************)
(* polyfill.ts: the wrapper of session.prompt and                          *)
(* prependSystemPromptToMessages.                                          *)
(*   promptInput   the array the caller passes to session.prompt           *)
(*   allPrompts    the array the wrapper passes to the original prompt     *)
(*   promptPc      "idle", "called" when the wrapper is entered,           *)
(*                 "prompted" when the original prompt is called           *)
(* The content of a message is a string, JStr(text), or an array of parts. *)
(***************************************************************************)
PromptInputs ==
  LET PromptContents ==
        {JStr(<<"hi">>), JStr(<<>>), JArr(<<JStr(<<"see ", QUOTE, "a", QUOTE>>)>>)}
      PromptMessages ==
        [role : {"user", "assistant", "system"}, content : PromptContents]
  IN UNION {[1..n -> PromptMessages] : n \in 0..MaxMessages}

\* buildToolSystemPrompt(tools), a text.
SystemPrompt == <<"X">>

PolyfillInit ==
  /\ promptInput = <<>>
  /\ allPrompts = <<>>
  /\ promptPc = "idle"

\* Mutant: the system prompt goes to the last user message.
prependToLastUserMessage(messages, systemPrompt) ==
  LET users == {i \in DOMAIN messages : messages[i].role = "user"}
  IN IF users # {}
       THEN [messages EXCEPT ![Max(users)] =
               [@ EXCEPT !.content = JStr(systemPrompt \o <<"\n\n">> \o
                  (IF @.t = "str" THEN @.s ELSE RenderValue(@)))]]
       ELSE <<[role |-> "user", content |-> JStr(systemPrompt)]>> \o messages

\* prependSystemPromptToMessages(messages, systemPrompt); index 0 stands for
\* the -1 of findIndex.
prependSystemPromptToMessages(messages, systemPrompt) ==
  LET allPrompts0 == messages
      users == {i \in DOMAIN allPrompts0 : allPrompts0[i].role = "user"}
      firstUserMessageIndex == IF users = {} THEN 0 ELSE Min(users)
  IN IF firstUserMessageIndex # 0
       THEN LET firstUserMessage == allPrompts0[firstUserMessageIndex]
                originalContent ==
                  IF firstUserMessage.content.t = "str"
                    THEN firstUserMessage.content.s
                    ELSE RenderValue(firstUserMessage.content)
            IN [allPrompts0 EXCEPT ![firstUserMessageIndex] =
                  [firstUserMessage EXCEPT !.content =
                     JStr(systemPrompt \o <<"\n\n">> \o originalContent)]]
       ELSE <<[role |-> "user", content |-> JStr(systemPrompt)]>> \o allPrompts0

\* The caller calls session.prompt(input) with an array of messages.
callPrompt(input) ==
  /\ promptPc = "idle"
  /\ promptPc' = "called"
  /\ promptInput' = input
  /\ UNCHANGED allPrompts
  /\ UNCHANGED <<genVars, streamVars, serializerVars, cacheVars, notifyVars, settingsVars, summaryVars>>

\* session.prompt up to the await of originalPrompt(allPrompts, ..): the
\* input is copied, the copy is given to prependSystemPromptToMessages.
prompt ==
  /\ promptPc = "called"
  /\ promptPc' = "prompted"
  /\ allPrompts' = prependSystemPromptToMessages(promptInput, SystemPrompt)
  /\ UNCHANGED promptInput
  /\ UNCHANGED <<genVars, streamVars, serializerVars, cacheVars, notifyVars, settingsVars, summaryVars>>

(***************************************************************************)
(* providerRegistryPlugin.activate: the setting webLLMModels (resp.        *)
(* transformersJsModels) and the provider registered for it.  Both         *)
(* providers run the same code.                                            *)
(*   settingsPc   "loading" until settingRegistry.load resolved, then      *)
(*                "loaded", the provider being registered                  *)
(*   composite    the value of the setting in settings.composite           *)
(*   configuredModels   configuredWebLLMModels / configuredTransformers-   *)
(*                Models, an array of texts                                *)
(*   defaultModels   providerInfo.defaultModels of the registered provider *)
(***************************************************************************)
SettingValues ==
  LET Entries == {JStr(<<"a">>), JStr(<<" ", "a", " ">>), JStr(<<" ">>), JNum("42"),
                  JStr(<<"b">>)}
  IN {JUndefined, JStr(<<"a">>)}
       \cup {JArr(xs) : xs \in UNION {[1..n -> Entries] : n \in 0..MaxEntries}}

\* normalizeModelName(modelName); JNull for null.
normalizeModelName(modelName) ==
  IF modelName.t # "str" THEN JNull
  ELSE IF trim(modelName.s) = <<>> THEN JNull
  ELSE JStr(trim(modelName.s))

\* getUserConfiguredModelNames(value): the Set keeps the order of insertion.
getUserConfiguredModelNames(value) ==
  LET RECURSIVE add(_, _)
      add(entries, modelNames) ==
        IF entries = <<>> THEN modelNames
        ELSE LET modelName == normalizeModelName(Head(entries))
             IN add(Tail(entries),
                    IF modelName # JNull
                         /\ \A i \in DOMAIN modelNames : modelNames[i] # modelName.s
                      THEN Append(modelNames, modelName.s) ELSE modelNames)
  IN IF ~IsArray(value) THEN <<>> ELSE add(value.a, <<>>)

\* Mutant: the configured names are added to the list.
refreshDefaultModelsMerging(list, configured) == list \o configured

\* refreshWebLLMDefaultModels: defaultModels.splice(0, length, ...configured)
refreshDefaultModels(list, configured) ==
  SubSeq(list, Len(list) + 1, Len(list)) \o configured

SettingsInit ==
  /\ settingsPc = "loading"
  /\ composite = JUndefined
  /\ configuredModels = <<>>
  /\ defaultModels = <<>>

\* settingRegistry.load(PLUGIN_ID) resolves: updateConfiguredWebLLMModels(),
\* whose refresh is still null, then registerWebLLMProvider(), which copies
\* the configured names and refreshes.
settingsLoaded(value) ==
  /\ settingsPc = "loading"
  /\ settingsPc' = "loaded"
  /\ composite' = value
  /\ configuredModels' = getUserConfiguredModelNames(value)
  /\ defaultModels' = refreshDefaultModels(configuredModels', configuredModels')
  /\ UNCHANGED <<genVars, streamVars, serializerVars, cacheVars, notifyVars, polyfillVars, summaryVars>>

\* settings.changed is emitted: updateConfiguredWebLLMModels().
settingsChanged(value) ==
  /\ settingsPc = "loaded"
  /\ composite' = value
  /\ configuredModels' = getUserConfiguredModelNames(value)
  /\ defaultModels' = refreshDefaultModels(defaultModels, configuredModels')
  /\ UNCHANGED settingsPc
  /\ UNCHANGED <<genVars, streamVars, serializerVars, cacheVars, notifyVars, polyfillVars, summaryVars>>

(***************************************************************************)
(* chromeAISummarizerPlugin: the cache of summaries, the click handler of  *)
(* a badge and the handler of fileChanged.  The content of a file is its   *)
(* version, 1 at first and one more with every save; a summary is the      *)
(* version it was computed from.                                           *)
(*   fileVersion[f]    the version of file f in the contents manager       *)
(*   summaryCache[f]   the summary the map holds for path f, 0 for none    *)
(*   clickPc[k]        where the handler of click k stands: "none",        *)
(*                     "reading" (contents.get is awaited), "summarizing", *)
(*                     "done"                                               *)
(*   clickPath[k], clickVersion[k]   its path and the version it read      *)
(*   clicks            how many clicks were made                           *)
(*   currentHoverPath  the variable of that name, "null" at first          *)
(*   tooltip           what showTooltip was last called with               *)
(***************************************************************************)
FilePaths == {"a.md", "b.ipynb"}

SummaryInit ==
  /\ fileVersion = [f \in FilePaths |-> 1]
  /\ summaryCache = [f \in FilePaths |-> 0]
  /\ clickPc = [k \in 1..MaxClicks |-> "none"]
  /\ clickPath = [k \in 1..MaxClicks |-> "null"]
  /\ clickVersion = [k \in 1..MaxClicks |-> 0]
  /\ clicks = 0
  /\ currentHoverPath = "null"
  /\ tooltip = "none"

\* The click handler of the badge of file f, up to its first await.
click(f) ==
  /\ clicks < MaxClicks
  /\ clicks' = clicks + 1
  /\ currentHoverPath' = f
  /\ clickPath' = [clickPath EXCEPT ![clicks + 1] = f]
  /\ IF summaryCache[f] # 0
       THEN /\ tooltip' = [summary |-> summaryCache[f]]
            /\ clickPc' = [clickPc EXCEPT ![clicks + 1] = "done"]
       ELSE /\ tooltip' = "Loading summary..."
            /\ clickPc' = [clickPc EXCEPT ![clicks + 1] = "reading"]
  /\ UNCHANGED <<fileVersion, summaryCache, clickVersion>>
  /\ UNCHANGED <<genVars, streamVars, serializerVars, cacheVars, notifyVars, polyfillVars,
                 settingsVars>>

\* summarizeTextFile / summarizeNotebook: await contents.get(filePath) resolves
\* with the content of the file as it is now.
contentsGet(k) ==
  /\ clickPc[k] = "reading"
  /\ clickPc' = [clickPc EXCEPT ![k] = "summarizing"]
  /\ clickVersion' = [clickVersion EXCEPT ![k] = fileVersion[clickPath[k]]]
  /\ UNCHANGED <<fileVersion, summaryCache, clickPath, clicks, currentHoverPath, tooltip>>
  /\ UNCHANGED <<genVars, streamVars, serializerVars, cacheVars, notifyVars, polyfillVars,
                 settingsVars>>

\* The summarization of click k resolves: the rest of the try block.
summarized(k) ==
  /\ clickPc[k] = "summarizing"
  /\ clickPc' = [clickPc EXCEPT ![k] = "done"]
  /\ summaryCache' = [summaryCache EXCEPT ![clickPath[k]] = clickVersion[k]]
  /\ tooltip' = IF currentHoverPath = clickPath[k]
                  THEN [summary |-> clickVersion[k]] ELSE tooltip
  /\ UNCHANGED <<fileVersion, clickPath, clickVersion, clicks, currentHoverPath>>
  /\ UNCHANGED <<genVars, streamVars, serializerVars, cacheVars, notifyVars, polyfillVars,
                 settingsVars>>

\* The summarization of click k rejects: the catch clause.
summaryFailed(k) ==
  /\ clickPc[k] \in {"reading", "summarizing"}
  /\ clickPc' = [clickPc EXCEPT ![k] = "done"]
  /\ tooltip' = IF currentHoverPath = clickPath[k]
                  THEN "Failed to generate summary" ELSE tooltip
  /\ UNCHANGED <<fileVersion, summaryCache, clickPath, clickVersion, clicks,
                 currentHoverPath>>
  /\ UNCHANGED <<genVars, streamVars, serializerVars, cacheVars, notifyVars, polyfillVars,
                 settingsVars>>

\* fileChanged with a change of type save for file f.
fileChanged(f) ==
  /\ fileVersion[f] <= MaxSaves
  /\ fileVersion' = [fileVersion EXCEPT ![f] = @ + 1]
  /\ summaryCache' = [summaryCache EXCEPT ![f] = 0]
  /\ UNCHANGED <<clickPc, clickPath, clickVersion, clicks, currentHoverPath, tooltip>>
  /\ UNCHANGED <<genVars, streamVars, serializerVars, cacheVars, notifyVars, polyfillVars,
                 settingsVars>>

(***************************************************************************)
(* The specifications.  Each runs one part of the program and leaves the   *)
(* variables of the others as they start.                                  *)
(***************************************************************************)

Init == GenInit /\ StreamInit /\ SerializerInit /\ CacheInit /\ NotifyInit
        /\ PolyfillInit /\ SettingsInit /\ SummaryInit

GenerateNext ==
  \/ \E r \in Replies, shape \in ContentShapes, reason \in FinishReasons :
       doGenerate(r, shape, reason)
  \/ NextCall

SpecGenerate ==
  Init /\ [][GenerateNext]_vars

StreamNext ==
  \/ \E c \in SourceChunks : transform(c)
  \/ closeStream
  \/ doStream

SpecStream ==
  Init /\ [][StreamNext]_vars

SerializerNext ==
  \E c \in Calls :
    \/ \E h \in Models, k \in CallKinds : acquireModelExecutionSlot(c, h, k)
    \/ slotGranted(c)
    \/ doGenerateResolves(c)
    \/ doGenerateRejects(c)
    \/ doStreamRejects(c)
    \/ doStreamResolves(c)
    \/ pull(c)
    \/ readValue(c)
    \/ readDone(c)
    \/ readError(c)
    \/ cancel(c)
    \/ readAfterCancel(c)
    \/ cancelResolves(c)
    \/ cancelRejects(c)

SpecSerializer ==
  Init /\ [][SerializerNext]_vars

\* The serializer with every promise settling: the continuation of a settled
\* await runs, the underlying doGenerate and doStream settle, a returned
\* stream is read to its end, fails or is cancelled, and the reader's cancel
\* settles.
SerializerFairness ==
  \A c \in Calls :
    /\ WF_vars(slotGranted(c))
    /\ WF_vars(doGenerateResolves(c) \/ doGenerateRejects(c))
    /\ WF_vars(doStreamResolves(c) \/ doStreamRejects(c))
    /\ WF_vars(readDone(c) \/ readError(c) \/ cancel(c))
    /\ WF_vars(cancelResolves(c) \/ cancelRejects(c))

SpecSerializerLive ==
  Init /\ [][SerializerNext]_vars /\ SerializerFairness

\* acquireModelExecutionSlot used by serializedDoGenerate, with release closures
\* that are invoked again after their first call.
ReleaseNext ==
  \E c \in Calls :
    \/ \E h \in Models : acquireModelExecutionSlot(c, h, "generate")
    \/ slotGranted(c)
    \/ doGenerateResolves(c)
    \/ doGenerateRejects(c)
    \/ releaseAgain(c)

SpecRelease ==
  Init /\ [][ReleaseNext]_vars

NotifyNext ==
  \/ createSessionWithProgress
  \/ ensureNotification
  \/ \E progress \in RawProgresses : onProgress(progress)
  \/ sessionCreated
  \/ sessionFailed
  \/ \E a \in {"available", "unavailable"} : availabilityDecides(a)

SpecNotify ==
  Init /\ [][NotifyNext]_vars

WebLLMNext ==
  \/ \E a \in {"available", "unavailable"} : availabilityDecides(a)
  \/ webLLMCreateSession
  \/ \E progress \in RawProgresses, text \in ReportTexts :
       initProgressCallback([progress |-> progress, text |-> text])
  \/ webLLMSessionCreated
  \/ webLLMSessionFailed

SpecWebLLM ==
  Init /\ [][WebLLMNext]_vars

PolyfillNext ==
  \/ \E input \in PromptInputs : callPrompt(input)
  \/ prompt

SpecPolyfill ==
  Init /\ [][PolyfillNext]_vars

SettingsNext ==
  \/ \E value \in SettingValues : settingsLoaded(value)
  \/ \E value \in SettingValues : settingsChanged(value)

SpecSettings ==
  Init /\ [][SettingsNext]_vars

SummaryNext ==
  \/ \E f \in FilePaths : click(f)
  \/ \E k \in 1..MaxClicks : contentsGet(k)
  \/ \E k \in 1..MaxClicks : summarized(k)
  \/ \E k \in 1..MaxClicks : summaryFailed(k)
  \/ \E f \in FilePaths : fileChanged(f)

SpecSummary ==
  Init /\ [][SummaryNext]_vars

CacheNext ==
  \E p \in Providers :
    \/ \E n \in ModelNames : factory(p, n)
    \/ \E S \in SUBSET ModelNames : preloadConfiguredModels(p, S)
    \/ \E n \in ModelNames, a \in Availabilities : availabilityAnswers(p, n, a)
    \/ \E n \in ModelNames : createSessionResolves(p, n)
    \/ \E n \in ModelNames : createSessionRejects(p, n)

SpecCache ==
  Init /\ [][CacheNext]_vars

(***************************************************************************)
(* The claims.                                                             *)
(***************************************************************************)

\* A call's underlying work is in progress: from the grant of its slot until
\* doGenerate settles, doStream rejects, or the returned stream is drained,
\* errors or is cancelled.
InProgress(c) ==
  \/ callPc[c] \in {"generating", "constructing"}
  \/ callPc[c] = "streaming" /\ source[c] = "open"

Started(c) == callPc[c] \notin {"idle", "acquiring"}

\* C1: on every model object at most one underlying doGenerate / doStream call
\* is in progress at any time, a stream call counting until its stream is
\* drained, errors or is cancelled.
C1_AtMostOneInProgress ==
  \A h \in Models :
    Cardinality({c \in Calls : callModel[c] = h /\ InProgress(c)}) <= 1

\* A stream call holds the slot with its stream returned and open while
\* another call on the same model waits for the slot.
C1_Witness ==
  \E a, b \in Calls :
    /\ a # b
    /\ callModel[a] = callModel[b]
    /\ callPc[a] = "streaming" /\ source[a] = "open" /\ reading[a]
    /\ callPc[b] = "acquiring"

\* C2: the slot is granted in the order of the calls of
\* acquireModelExecutionSlot (the order of the call numbers): a later call on
\* the same model has not started its work unless every earlier one has
\* called release.
C2_FifoOrder ==
  \A a, b \in Calls :
    (a < b /\ callModel[a] = callModel[b] /\ callPc[a] # "idle" /\ Started(b))
      => releaseCalls[a] >= 1

\* Three calls queued on one model: the first has released, the second works,
\* the third still waits.
C2_Witness ==
  /\ MaxCalls >= 3
  /\ callModel[1] = callModel[2] /\ callModel[2] = callModel[3]
  /\ releaseCalls[1] = 1
  /\ InProgress(2)
  /\ callPc[3] = "acquiring"

\* C3: a stream call keeps the slot after doStream has returned, releases it
\* exactly once, at the first of reader done, read error and cancel, later
\* terminal events release nothing, and no other call on the model starts
\* before.
C3_StreamReleasedOnce ==
  \A c \in Calls :
    callKind[c] = "stream" =>
      /\ releaseCalls[c] <= 1
      /\ (callPc[c] = "streaming" /\ source[c] = "open") =>
           /\ releaseCalls[c] = 0
           /\ ~released[c]
           /\ \A d \in Calls :
                (d # c /\ callModel[d] = callModel[c]) =>
                  /\ ~InProgress(d)
                  /\ d > c => ~Started(d)
      /\ source[c] \in {"closed", "errored"} => releaseCalls[c] = 1 /\ released[c]
      /\ (source[c] = "cancelled" /\ ~cancelling[c]) => releaseCalls[c] = 1 /\ released[c]
      /\ (source[c] = "cancelled" /\ wrapperReleases[c] >= 1) => releaseCalls[c] = 1

\* Two terminal events of one stream: the pending read ended by the cancel and
\* the settled cancel both reached release, and the slot was released once,
\* after which the next call on the model started.
C3_Witness ==
  \E c, d \in Calls :
    /\ callKind[c] = "stream"
    /\ source[c] = "cancelled"
    /\ wrapperReleases[c] = 2
    /\ releaseCalls[c] = 1
    /\ d > c /\ callModel[d] = callModel[c] /\ Started(d)

\* C4: for any requests for one model name the model is constructed exactly
\* once, and every requester gets the one handle the cache holds, which never
\* changes.
C4_ConstructedOnce ==
  \A p \in Providers, n \in ModelNames :
    /\ constructed[p][n] <= 1
    /\ models[p][n] = constructed[p][n]
    /\ handed[p][n] \subseteq {1}
    /\ (handed[p][n] # {} \/ initialization[p][n] # "none") => models[p][n] = 1

\* Three requests were made for one name, one of them while its
\* initialization was pending, and one model was constructed.
C4_Witness ==
  \E p \in Providers, n \in ModelNames :
    /\ requests >= 3
    /\ handed[p][n] = {1}
    /\ initialization[p][n] = "creating"
    /\ constructed[p][n] = 1
    /\ \A m \in ModelNames \ {n} : constructed[p][m] = 0
    /\ \A q \in Providers \ {p} : \A m \in ModelNames : constructed[q][m] = 0

\* An element of an output array is valid: type "function_call", non-empty
\* callId and name, arguments of string type.
ValidElement(item) ==
  /\ item.t = "obj"
  /\ Get(item, <<"type">>) = JStr(<<"function_call">>)
  /\ Get(item, <<"callId">>).t = "str" /\ Get(item, <<"callId">>).s # <<>>
  /\ Get(item, <<"name">>).t = "str" /\ Get(item, <<"name">>).s # <<>>
  /\ Get(item, <<"arguments">>).t = "str"

ValidOutput(items) == \A i \in 1..Len(items) : ValidElement(items[i])

\* doGenerate has applied parseToolCallResponse to a reply carrying an envelope.
ParsedEnvelope ==
  genPc = "returned" /\ isTextResponse(underlying) /\ reply.envelope

\* C5: for every text containing a valid envelope, bare or fenced, with prose
\* before, after or both, parseToolCallResponse returns the envelope's output
\* array.
C5_ReturnsOutputArray ==
  (ParsedEnvelope /\ ValidOutput(reply.items)) => toolCalls = JArr(reply.items)

\* C6: if any element of the output array is invalid, parseToolCallResponse
\* returns null for the whole response.
C6_AllOrNothing ==
  (ParsedEnvelope /\ ~ValidOutput(reply.items)) => toolCalls = JNull

\* An envelope of one valid and one invalid element, extracted and parsed as
\* JSON, is refused as a whole.
C6_Witness ==
  /\ ParsedEnvelope
  /\ Len(reply.items) = 2
  /\ \E i, j \in 1..2 : ValidElement(reply.items[i]) /\ ~ValidElement(reply.items[j])
  /\ reply.wrap = "fence-json" /\ reply.lead # <<>> /\ reply.trail # <<>>
  /\ JSONParse(jsonText(ReplyText(reply))).ok
  /\ toolCalls = JNull


RECURSIVE Flatten(_)
Flatten(ps) == IF ps = <<>> THEN <<>> ELSE Head(ps) \o Flatten(Tail(ps))

\* C7: a segment text-start(id), text-delta.., text-end(id) whose text is no
\* tool call comes out as text-start(id), one text-delta(id, whole text),
\* text-end(id), and nothing else is emitted for it.
C7_TextSegmentForwarded ==
  /\ (chunk.type \in {"text-start", "text-delta"} /\ segment = "open") => enqueued = <<>>
  /\ (chunk.type = "text-end" /\ segment = "ended" /\ chunk.id = textId
        /\ streamToolCalls = JNull)
       => enqueued = <<TextStart(chunk.id), TextDelta(chunk.id, JStr(Flatten(pieces))),
                       TextEnd(chunk.id)>>

\* C8: a segment whose text parses as N tool calls comes out as N groups of
\* tool-input-start, tool-input-delta(arguments), tool-input-end, tool-call,
\* in array order, each with its call's callId, and as no text event.
C8_ToolCallEvents ==
  /\ (chunk.type \in {"text-start", "text-delta"}) => enqueued = <<>>
  /\ (chunk.type = "text-end" /\ Truthy(streamToolCalls)) =>
       LET calls == streamToolCalls.a
           id(i) == Get(calls[i], <<"callId">>)
           nm(i) == Get(calls[i], <<"name">>)
           ar(i) == Get(calls[i], <<"arguments">>)
       IN /\ Len(enqueued) = 4 * Len(calls)
          /\ \A i \in 1..Len(calls) :
               /\ enqueued[4 * i - 3] = ToolInputStart(id(i), nm(i))
               /\ enqueued[4 * i - 2] = ToolInputDelta(id(i), ar(i))
               /\ enqueued[4 * i - 1] = ToolInputEnd(id(i))
               /\ enqueued[4 * i] = ToolCall(id(i), nm(i), ar(i))
          /\ \A k \in 1..Len(enqueued) :
               enqueued[k].type \notin {"text-start", "text-delta", "text-end"}
          /\ (pieces = <<PieceOpen, PieceMore, PieceClose>>)
               => calls = <<GoodItem(1), GoodItem(2)>>

\* The segment of two calls has ended and eight events were enqueued.
C8_Witness ==
  /\ chunk.type = "text-end"
  /\ segment = "ended"
  /\ Truthy(streamToolCalls)
  /\ Len(streamToolCalls.a) = 2
  /\ Len(enqueued) = 8
  /\ enqueued[1].id = JStr(<<"c1">>) /\ enqueued[5].id = JStr(<<"c2">>)

\* C9: when the underlying content is one text part that parses as tool calls,
\* doGenerate returns finishReason "tool-calls" and one tool-call entry per
\* call, in order, input being the arguments string as the reply carried it;
\* in every other case it returns the underlying result unchanged.
C9_DoGenerateResult ==
  genPc = "returned" =>
    IF isTextResponse(underlying) /\ Truthy(toolCalls)
      THEN /\ generated.finishReason = "tool-calls"
           /\ Len(generated.content) = Len(toolCalls.a)
           /\ reply.envelope /\ toolCalls.a = reply.items
           /\ \A i \in 1..Len(reply.items) :
                generated.content[i] =
                  [type |-> "tool-call",
                   toolCallId |-> Get(reply.items[i], <<"callId">>),
                   toolName |-> Get(reply.items[i], <<"name">>),
                   input |-> Get(reply.items[i], <<"arguments">>)]
      ELSE generated = underlying

\* The end-to-end case: a fenced json block with two calls gives two tool-call
\* entries, the second with the arguments text {"a": 1} as written.
C9_Witness ==
  /\ genPc = "returned"
  /\ reply.wrap = "fence-json"
  /\ generated.finishReason = "tool-calls"
  /\ Len(generated.content) = 2
  /\ generated.content[2].input = JStr(ArgumentsText(2))
  /\ underlying.finishReason = "stop"

\* C10: every tool call parseToolCallResponse returns has arguments that are
\* a syntactically valid JSON text.
C10_ArgumentsAreJson ==
  (genPc = "returned" /\ Truthy(toolCalls)) =>
    \A i \in 1..Len(toolCalls.a) :
      JSONParse(Get(toolCalls.a[i], <<"arguments">>).s).ok

\* C11: parseToolCallResponse returns null or a non-empty array, so doGenerate
\* never returns finishReason "tool-calls" with an empty content list.
C11_NonEmptyToolCalls ==
  genPc = "returned" =>
    /\ isTextResponse(underlying) => (toolCalls = JNull \/ Len(toolCalls.a) >= 1)
    /\ generated.finishReason = "tool-calls" => generated.content # <<>>

\* The text handed to parseToolCallResponse is malformed: no JSON text, or JSON
\* that is no object, or whose output is no array, or whose output holds an
\* element that is no object.
Malformed(text) ==
  LET r == JSONParse(jsonText(text))
  IN \/ ~r.ok
     \/ r.v.t # "obj"
     \/ Get(r.v, <<"output">>).t # "arr"
     \/ \E i \in 1..Len(Get(r.v, <<"output">>).a) : Get(r.v, <<"output">>).a[i].t # "obj"

\* C12: parseToolCallResponse never throws; a malformed text gives null, and
\* in doStream its text-end forwards the buffered text and the stream is not
\* errored.
C12_NeverThrows ==
  /\ streamPc # "errored"
  /\ streamToolCalls # Thrown
  /\ (chunk.type = "text-end" /\ Malformed(bufferedText)) =>
       /\ streamToolCalls = JNull
       /\ enqueued = forwardBufferedText(textId, bufferedText)

\* A segment whose text is an envelope with a null element after a valid one
\* (the callback of every throws inside the try block) was forwarded as text.
C12_Witness ==
  /\ chunk.type = "text-end"
  /\ pieces = <<PieceOpen, PieceNullItem, PieceClose>>
  /\ JSONParse(bufferedText).ok
  /\ streamToolCalls = JNull
  /\ Len(enqueued) = 3
  /\ enqueued[2] = TextDelta(textId, JStr(bufferedText))
  /\ streamPc = "open"


\* C13: a cancel of the wrapped stream of c is forwarded to the reader of c
\* with the consumer's reason, the slot of c is released once the reader's
\* cancel has settled, fulfilled or rejected, and no other call is released or
\* cancelled by it.
C13_CancelReleasesOwnSlot ==
  /\ [](\A c \in Calls :
          /\ source[c] = "cancelled" => cancelReason[c] = CalledWith(ReasonOf(c))
          /\ source[c] # "cancelled" => cancelReason[c] = NotCalled
          /\ (cancelling[c] /\ wrapperReleases[c] = 0) => ~released[c]
          /\ cancelOutcome[c].state \in {"fulfilled", "rejected"} =>
                released[c] /\ releaseCalls[c] = 1)
  /\ [][\A c \in Calls :
          cancelOutcome'[c] # cancelOutcome[c] =>
            \A d \in Calls \ {c} :
              /\ released'[d] = released[d]
              /\ releaseCalls'[d] = releaseCalls[d]
              /\ streamReleased'[d] = streamReleased[d]
              /\ source'[d] = source[d]
              /\ cancelReason'[d] = cancelReason[d]
              /\ callPc'[d] = callPc[d]]_vars

\* The reader's cancel of call 1 rejected and its slot was released; the
\* stream of call 2, on the other model object, is still open and holds its
\* slot, and call 3 got the slot of call 1.
C13_Witness ==
  /\ MaxCalls >= 3
  /\ cancelOutcome[1] = Rejected(ErrorOf(1))
  /\ cancelReason[1] = CalledWith(ReasonOf(1))
  /\ released[1]
  /\ callModel[2] # callModel[1] /\ callPc[2] = "streaming" /\ source[2] = "open"
  /\ ~released[2] /\ cancelReason[2] = NotCalled
  /\ callModel[3] = callModel[1] /\ Started(3)

\* C14: when the underlying doGenerate or doStream rejects, the caller gets
\* that error, the slot is released by then, and the next caller queued on
\* the model object can be granted.
C14_ReleasedOnRejection ==
  \A c \in Calls :
    callResult[c].state = "rejected" =>
      /\ callResult[c] = Rejected(ErrorOf(c))
      /\ released[c] /\ releaseCalls[c] = 1
      /\ \A d \in Calls :
           (previous[d] = c /\ callPc[d] = "acquiring") => previousSettled(d)

\* The doGenerate of call 1 and the doStream of call 2 rejected, and call 3,
\* queued behind them, was granted the slot.
C14_Witness ==
  /\ MaxCalls >= 3
  /\ callKind[1] = "generate" /\ callResult[1] = Rejected(ErrorOf(1))
  /\ callKind[2] = "stream" /\ callResult[2] = Rejected(ErrorOf(2))
  /\ previous[2] = 1 /\ previous[3] = 2
  /\ InProgress(3)

\* The last call made on model object h, 0 when there is none.
LastCall(h) ==
  IF \E c \in Calls : callPc[c] # "idle" /\ callModel[c] = h
    THEN CHOOSE c \in Calls :
           /\ callPc[c] # "idle" /\ callModel[c] = h
           /\ \A d \in Calls : (callPc[d] # "idle" /\ callModel[d] = h) => d <= c
    ELSE 0

\* C15: a release closure invoked again after its first call changes nothing:
\* the slot of a later holder is not freed, the map entry of a later acquirer
\* stays, and the waiters are still granted one at a time, in order.
C15_RepeatedReleaseNoOp ==
  /\ [](/\ \A h \in Models :
             Cardinality({c \in Calls : callModel[c] = h /\ InProgress(c)}) <= 1
        /\ \A a, b \in Calls :
             (a < b /\ callModel[a] = callModel[b] /\ callPc[a] # "idle" /\ Started(b))
               => callPc[a] = "done"
        /\ \A h \in Models :
             (LastCall(h) # 0 /\ ~released[LastCall(h)])
               => modelExecutionQueue[h] = LastCall(h))
  /\ [][\A c \in Calls :
          (released[c] /\ releaseCalls'[c] > releaseCalls[c]) =>
            /\ released' = released
            /\ modelExecutionQueue' = modelExecutionQueue
            /\ callPc' = callPc]_vars

\* The closure of call 1 was invoked a second time while call 2 holds the slot
\* and call 3 waits behind it with its entry in the map.
C15_Witness ==
  /\ MaxCalls >= 3
  /\ releaseCalls[1] = 2
  /\ callModel[2] = callModel[1] /\ callPc[2] = "generating" /\ ~released[2]
  /\ callModel[3] = callModel[1] /\ callPc[3] = "acquiring"
  /\ modelExecutionQueue[callModel[1]] = 3

\* C16: provided every granted call settles, every caller waiting in
\* acquireModelExecutionSlot is eventually granted the slot.
C16_EveryWaiterGranted ==
  \A c \in Calls : (callPc[c] = "acquiring") ~> Started(c)

\* Call 3 was granted after a stream that ended with a read error and a
\* stream that was cancelled while a read was pending, all on one model object.
C16_Witness ==
  /\ MaxCalls >= 3
  /\ callModel[2] = callModel[1] /\ callModel[3] = callModel[1]
  /\ source[1] = "errored"
  /\ source[2] = "cancelled" /\ wrapperReleases[2] = 2
  /\ Started(3)

\* C17: a request that starts a new initialization of a name whose cached
\* handle failed to initialize constructs a fresh handle for it.
C17_FreshHandleAfterFailure ==
  [][\A p \in Providers, n \in ModelNames :
       (/\ initialization[p][n] = "none"
        /\ initialization'[p][n] # "none"
        /\ models[p][n] \in initFailures[p][n])
         => (/\ models'[p][n] # models[p][n]
             /\ constructed'[p][n] = constructed[p][n] + 1)]_vars


C21_WebLLMFailureSameNotification ==
  (loadPc = "failed" /\ progressEvents > 0) =>
    /\ Len(notifications) = 1
    /\ notifications[1].type = "error"

\* C22: when availability() answers "unavailable" the failure is reported to
\* the notification sink; when it answers "available" nothing is reported.
C22_UnavailableReported ==
  /\ loadPc = "unavailable" => \E i \in DOMAIN notifications : notifications[i].type = "error"
  /\ loadPc = "available" => notifications = <<>>


\* C23: the array given to the original prompt has the instruction, a blank
\* line and the original content (its JSON text when it is no string) as the
\* content of the first user message, or a new leading user message with the
\* instruction when there is no user message; all other messages are the
\* input's, in their order, and the input is left as it was.
C23_PrependsToFirstUser ==
  /\ [](promptPc = "prompted" =>
         LET users == {i \in DOMAIN promptInput : promptInput[i].role = "user"}
         IN IF users = {}
              THEN /\ Len(allPrompts) = Len(promptInput) + 1
                   /\ allPrompts[1] = [role |-> "user", content |-> JStr(SystemPrompt)]
                   /\ \A i \in DOMAIN promptInput : allPrompts[i + 1] = promptInput[i]
              ELSE LET first == CHOOSE i \in users : \A j \in users : i <= j
                       original == promptInput[first].content
                   IN /\ Len(allPrompts) = Len(promptInput)
                      /\ allPrompts[first].role = "user"
                      /\ allPrompts[first].content =
                           JStr(SystemPrompt \o <<"\n\n">> \o
                                (IF original \in {JStr(<<"hi">>), JStr(<<>>)}
                                   THEN original.s
                                   ELSE <<"[", QUOTE, "see ", BACKSLASH, QUOTE, "a",
                                          BACKSLASH, QUOTE, QUOTE, "]">>))
                      /\ \A i \in DOMAIN promptInput \ {first} :
                           allPrompts[i] = promptInput[i])
  /\ [][promptPc = "called" => promptInput' = promptInput]_vars

C23_Witness ==
  /\ promptPc = "prompted"
  /\ Len(promptInput) = 3
  /\ promptInput[1].role = "assistant"
  /\ promptInput[2] = [role |-> "user", content |-> JStr(<<"hi">>)]
  /\ promptInput[3].role = "user"
  /\ allPrompts[2].content = JStr(<<"X", "\n\n", "hi">>)


\* C24: while a text segment is buffered, after its text-start and before its
\* text-end, no call of transform enqueues a text-start, a text-delta or a
\* text-end.
C24_NothingOfOpenSegment ==
  segment = "open" =>
    \A i \in DOMAIN enqueued :
      enqueued[i].type \notin {"text-start", "text-delta", "text-end"}

C24_Witness ==
  /\ segment = "open"
  /\ chunk.type = "text-delta"
  /\ Len(pieces) >= 2
  /\ enqueued = <<>>

\* C25: a chunk whose type is not text-start, text-delta or text-end is
\* enqueued by the call of transform that receives it, as it is and once,
\* also while a segment is buffered; so these chunks keep their order.
C25_OthersPassThrough ==
  chunk.type \notin {"text-start", "text-delta", "text-end", "none"} =>
    enqueued = <<chunk>>

C25_Witness ==
  /\ chunk = [type |-> "finish", finishReason |-> "stop"]
  /\ segment = "open"
  /\ pieces # <<>>
  /\ enqueued = <<chunk>>


\* C28: no text is lost by doStream: when a text-end arrives and the buffered
\* text is no tool call, the text of all deltas received is enqueued as text,
\* also for deltas and a text-end without a text-start and for an empty
\* segment id; and the output does not close on a segment that is still
\* buffered.
C28_NoTextLost ==
  /\ (chunk.type = "text-end" /\ streamToolCalls = JNull) =>
       LET deltas == SelectSeq(enqueued, LAMBDA e : e.type = "text-delta")
       IN Flatten([i \in DOMAIN deltas |-> deltas[i].delta.s]) = Flatten(pieces)
  /\ streamPc = "closed" => ~(segment = "open" /\ pieces # <<>>)

\* C29: for an output of one text segment, with a segment id that is not
\* empty, doStream and doGenerate agree: the tool-call events of the stream
\* are the content of doGenerate, else both deliver the same text; and the
\* finish event that follows carries "tool-calls" exactly when doGenerate
\* returns that finish reason.
GenerateOfSegment ==
  doGenerateResult([content |-> <<TextPart(bufferedText)>>, finishReason |-> "stop"])

SegmentEnded ==
  /\ chunk.type = "text-end"
  /\ segment = "ended"
  /\ chunk.id = textId
  /\ Truthy(textId)
  /\ streamPc = "open"

C29_StreamAgreesWithGenerate ==
  /\ [](SegmentEnded =>
         IF GenerateOfSegment.finishReason = "tool-calls"
           THEN SelectSeq(enqueued, LAMBDA e : e.type = "tool-call")
                  = GenerateOfSegment.content
           ELSE /\ SelectSeq(enqueued, LAMBDA e : e.type = "text-delta")
                     = <<TextDelta(textId, JStr(GenerateOfSegment.content[1].text))>>
                /\ \A i \in DOMAIN enqueued : enqueued[i].type # "tool-call")
  /\ [][(SegmentEnded /\ chunk'.type = "finish") =>
          (enqueued'[1].finishReason = "tool-calls"
             <=> GenerateOfSegment.finishReason = "tool-calls")]_vars


\* C26: once the settings are loaded and after every change of them, the
\* defaultModels of the provider are the entries of the setting that are
\* strings and not blank, trimmed, each once, in the order of their first
\* occurrence, and nothing of the previous list; the list the factory takes
\* its fallback from is the same list.
C26_DefaultModelsAreTheSetting ==
  settingsPc = "loaded" =>
    LET entries == IF composite.t = "arr" THEN composite.a ELSE <<>>
        named(i) == entries[i].t = "str" /\ trim(entries[i].s) # <<>>
        first(name) ==
          Min({i \in DOMAIN entries : named(i) /\ trim(entries[i].s) = name})
    IN /\ {defaultModels[i] : i \in DOMAIN defaultModels}
            = {trim(entries[i].s) : i \in {j \in DOMAIN entries : named(j)}}
       /\ \A i, j \in DOMAIN defaultModels :
            i < j => first(defaultModels[i]) < first(defaultModels[j])
       /\ configuredModels = defaultModels

C26_Witness ==
  /\ settingsPc = "loaded"
  /\ composite = JArr(<<JStr(<<"b">>), JStr(<<" ", "a", " ">>), JStr(<<"a">>)>>)
  /\ defaultModels = << <<"b">>, <<"a">> >>


\* C27: a model name has at most one initialization in flight: a factory or
\* preload call made while the initialization of a name is pending starts no
\* initialization for it and leaves the pending one where it stands; the
\* entry is removed when the initialization settles, on success and on
\* failure, and the next call for the name starts a new one.
C27_OneInitializationInFlight ==
  /\ [](\A p \in Providers, n \in ModelNames :
          /\ inFlight[p][n] <= 1
          /\ inFlight[p][n] = 1 <=> initialization[p][n] # "none")
  /\ [][\A p \in Providers, n \in ModelNames :
          /\ (requests' # requests /\ initialization[p][n] # "none") =>
               /\ inFlight'[p][n] = inFlight[p][n]
               /\ initialization'[p][n] = initialization[p][n]
          /\ (requests' = requests /\ inFlight'[p][n] < inFlight[p][n]) =>
               initialization'[p][n] = "none"
          /\ (initialization[p][n] = "none" /\ initialization'[p][n] # "none") =>
               /\ initialization'[p][n] = "availability"
               /\ inFlight'[p][n] = 1]_vars

\* Three requests were made; an initialization of the name has failed and a
\* later one of the same name is creating the session.
C27_Witness ==
  \E p \in Providers, n \in ModelNames :
    /\ requests = 3
    /\ initFailures[p][n] # {}
    /\ initialization[p][n] = "creating"
    /\ inFlight[p][n] = 1


\* C30: the summary the cache holds for a path was computed from the content
\* of the path's most recent save, and so is a summary a click is served from
\* the cache.
C30_CacheIsFresh ==
  \A f \in FilePaths : summaryCache[f] \in {0, fileVersion[f]}

====
